---- MODULE Spec2Model ----
(***************************************************************************)
(* Verification model of the taco connection protocol:                     *)
(*   - the XState connection machine (connectionMachine) and the actions   *)
(*     and guards the Connection class binds to it,                        *)
(*   - the Team facade operations the connection calls (has, members,      *)
(*     admit, join, merge, save, hasInvitation),                           *)
(*   - ordered delivery of numbered messages (Connection.deliver).         *)
(* Two connections, "a" and "b", talk over one FIFO channel per direction. *)
(***************************************************************************)
EXTENDS Integers, Sequences, FiniteSets, TLC

\* ------------------------------------------------------------------------
\* Bounds
\* ------------------------------------------------------------------------

\* number of distinct values randomKey() can return for a session seed
MaxSeed == 2

\* number of messages the peer sends in the ordered-delivery specification
MaxIndex == 6

\* number of merge links a graph may hold in the graph specification
MaxMerges == 3

\* number of links a Team may append to its chain in the facade specification
MaxLinks == 3

\* number of connections the AuthProvider may make, and of messages it may receive
MaxConnections == 3
MaxMessages == 3

\* removeDevice is applied at most this many times to a team state
MaxRemoved == 2

\* ------------------------------------------------------------------------
\* Links, graphs (signature chains) and team state
\* ------------------------------------------------------------------------

\* A link is identified by its content: its hash is modelled as the link itself.
\* A merge link also records its two parents in order; other links have none.
\* The lockboxes are the ones the payload carries (none unless the Team made some).
Link(type, author, name, arg, prev) ==
  [type |-> type, author |-> author, name |-> name, arg |-> arg, prev |-> prev,
   parents |-> <<>>, lockboxes |-> {}]

NoLink == Link("NONE", "", "", "", {})

RECURSIVE Ancestors(_)
Ancestors(l) == l.prev \cup UNION {Ancestors(p) : p \in l.prev}

Chain(head) == [root |-> CHOOSE r \in (Ancestors(head) \cup {head}) : r.type = "ROOT",
                head |-> head,
                links |-> Ancestors(head) \cup {head}]

NoTeam == [root |-> NoLink, head |-> NoLink, links |-> {}]

\* chains.append: the new link's prev is the current head, and it becomes the head
AppendLink(chain, type, author, name, arg) ==
  LET l == Link(type, author, name, arg, {chain.head})
  IN  [root |-> chain.root, head |-> l, links |-> chain.links \cup {l}]

\* Team.dispatch
Dispatch(chain, type, author, name, arg) == AppendLink(chain, type, author, name, arg)

\* the order of two hashes: some fixed total order on links
HashFirst(h1, h2) == CHOOSE h \in {h1, h2} : TRUE

\* a merge that records the parents in the order in which it was given them
MergeParentsAsGiven(h1, h2) == <<h1, h2>>

\* chains.merge: the two heads, sorted by hash
MergeParents(h1, h2) == IF HashFirst(h1, h2) = h1 THEN <<h1, h2>> ELSE <<h2, h1>>

MergeLink(h1, h2) ==
  [Link("MERGE", "", "", "", {h1, h2}) EXCEPT !.parents = MergeParents(h1, h2)]

\* chains.merge
MergeChains(a, b) ==
  LET links == a.links \cup b.links
  IN  IF a.head = b.head \/ b.head \in Ancestors(a.head)
        THEN [root |-> a.root, head |-> a.head, links |-> links]
      ELSE IF a.head \in Ancestors(b.head)
        THEN [root |-> a.root, head |-> b.head, links |-> links]
      ELSE [root |-> a.root, head |-> MergeLink(a.head, b.head),
            links |-> links \cup {MergeLink(a.head, b.head)}]

\* the links the reducer sees: everything reachable from the head
Reduced(chain) == Ancestors(chain.head) \cup {chain.head}

\* reducer: member list
TeamMembers(chain) ==
  LET ls == Reduced(chain)
  IN  ({l.author : l \in {x \in ls : x.type = "ROOT"}}
        \cup {l.name : l \in {x \in ls : x.type = "ADD_MEMBER"}})
      \ {l.name : l \in {x \in ls : x.type = "REMOVE_MEMBER"}}

\* select.hasMember / Team.has
Has(chain, userName) == userName \in TeamMembers(chain)

NoKeys == [name |-> "", tag |-> ""]
Keys(name, tag) == [name |-> name, tag |-> tag]

\* reducer: the public keys recorded for a member
MemberKeys(chain, userName) ==
  LET ls == Reduced(chain)
      changed == {l \in ls : l.type = "CHANGE_MEMBER_KEYS" /\ l.author = userName}
      added == {l \in ls : (l.type = "ADD_MEMBER" /\ l.name = userName)
                            \/ (l.type = "ROOT" /\ l.author = userName)}
  IN  IF changed # {} THEN Keys(userName, (CHOOSE l \in changed : TRUE).arg)
      ELSE IF added # {} THEN Keys(userName, (CHOOSE l \in added : TRUE).arg)
      ELSE NoKeys

NoMember == [userName |-> "", keys |-> NoKeys]

\* Team.members(userName)
Member(chain, userName) == [userName |-> userName, keys |-> MemberKeys(chain, userName)]

\* reducer: invitations by id
InvitationIds(chain) == {l.arg : l \in {x \in Reduced(chain) : x.type = "INVITE"}}
InvitationUser(chain, id) ==
  (CHOOSE l \in Reduced(chain) : l.type = "INVITE" /\ l.arg = id).name
InvitationRevoked(chain, id) ==
  \E l \in Reduced(chain) : l.type = "REVOKE_INVITATION" /\ l.arg = id
InvitationUsed(chain, id) ==
  \E l \in Reduced(chain) : l.type = "ADMIT" /\ l.arg = id

\* ------------------------------------------------------------------------
\* Invitations, identity challenges, seeds
\* ------------------------------------------------------------------------

\* invitation id derived from the invitation seed
IdOf(seed) == IF seed = "s1" THEN "id1" ELSE IF seed = "s2" THEN "id2" ELSE ""

NoProof == [id |-> "", userName |-> "", seed |-> ""]

\* invitations.generateProof(seed, userName): the proof is signed with the seed-derived key
GenerateProof(seed, userName) == [id |-> IdOf(seed), userName |-> userName, seed |-> seed]

\* a validation that accepts whatever proof it is shown
AcceptAnyProof(proof, chain) == TRUE

\* invitations.validate(proof, invitation, teamKeys)
ValidateProof(proof, chain) ==
  /\ IdOf(proof.seed) = proof.id
  /\ InvitationUser(chain, proof.id) = proof.userName

\* Team.hasInvitation
HasInvitation(chain, proof) == proof.id \in InvitationIds(chain)

\* Team.admit: the conditions under which it does not throw
CanAdmit(chain, proof) ==
  /\ proof.id \in InvitationIds(chain)
  /\ ~InvitationRevoked(chain, proof.id)
  /\ ~InvitationUsed(chain, proof.id)
  /\ ValidateProof(proof, chain)

\* Team.admit: the chain after a successful admission
Admit(chain, proof, userName) == Dispatch(chain, "ADMIT", userName, "", proof.id)

\* Team.join: posts ADD_DEVICE for my device, then CHANGE_MEMBER_KEYS to my real keys
Join(chain, userName, keys) ==
  Dispatch(Dispatch(chain, "ADD_DEVICE", userName, userName, "laptop"),
           "CHANGE_MEMBER_KEYS", userName, userName, keys.tag)

NoChallenge == [name |-> "", nonce |-> ""]

\* identity.challenge(identityClaim): a fresh nonce per issuing connection
IdentityChallenge(claim, issuer) == [name |-> claim, nonce |-> issuer]

NoIdProof == [challenge |-> NoChallenge, keys |-> NoKeys]

\* identity.prove(challenge, keys): signature over the challenge
IdentityProve(challenge, keys) == [challenge |-> challenge, keys |-> keys]

\* identity.verify(challenge, proof, publicKeys)
IdentityVerify(challenge, proof, publicKeys) ==
  proof.challenge = challenge /\ proof.keys = publicKeys

NoCipher == [secret |-> 0, recipient |-> NoKeys, sender |-> NoKeys]

\* asymmetric.encrypt
Encrypt(secret, recipientPublicKey, senderKeys) ==
  [secret |-> secret, recipient |-> recipientPublicKey, sender |-> senderKeys]

\* asymmetric.decrypt succeeds only for the recipient, checking the sender's key
CanDecrypt(cipher, senderPublicKey, recipientKeys) ==
  cipher.recipient = recipientKeys /\ cipher.sender = senderPublicKey

NoSessionKey == [lo |-> 0, hi |-> 0]

\* deriveSharedKey(ourSeed, theirSeed): hash of the two seeds, smaller first
DeriveSharedKey(ourSeed, theirSeed) ==
  [lo |-> IF ourSeed <= theirSeed THEN ourSeed ELSE theirSeed,
   hi |-> IF ourSeed <= theirSeed THEN theirSeed ELSE ourSeed]

\* ------------------------------------------------------------------------
\* Messages
\* ------------------------------------------------------------------------

EmptyMsg ==
  [type |-> "", index |-> 0, identityClaim |-> "", proofOfInvitation |-> NoProof,
   chain |-> NoTeam, challenge |-> NoChallenge, proof |-> NoIdProof,
   root |-> NoLink, head |-> NoLink, links |-> {}, encryptedSeed |-> NoCipher,
   message |-> ""]

HelloMessage(claim, proof) ==
  [EmptyMsg EXCEPT !.type = "HELLO", !.identityClaim = claim, !.proofOfInvitation = proof]
AcceptInvitationMessage(chain) ==
  [EmptyMsg EXCEPT !.type = "ACCEPT_INVITATION", !.chain = chain]
ChallengeIdentityMessage(challenge) ==
  [EmptyMsg EXCEPT !.type = "CHALLENGE_IDENTITY", !.challenge = challenge]
ProveIdentityMessage(challenge, proof) ==
  [EmptyMsg EXCEPT !.type = "PROVE_IDENTITY", !.challenge = challenge, !.proof = proof]
AcceptIdentityMessage == [EmptyMsg EXCEPT !.type = "ACCEPT_IDENTITY"]
UpdateMessage(chain) ==
  [EmptyMsg EXCEPT !.type = "UPDATE", !.root = chain.root, !.head = chain.head,
                   !.links = chain.links]
MissingLinksMessage(head, links) ==
  [EmptyMsg EXCEPT !.type = "MISSING_LINKS", !.head = head, !.links = links]
SeedMessage(cipher) == [EmptyMsg EXCEPT !.type = "SEED", !.encryptedSeed = cipher]
ErrorMessage(message) == [EmptyMsg EXCEPT !.type = "ERROR", !.message = message]
DisconnectMessage == [EmptyMsg EXCEPT !.type = "DISCONNECT"]

\* error texts of the fail actions
REJECT_IDENTITY == "I couldn't verify your identity"
NEITHER_IS_MEMBER == "We can't connect because neither one of us is a member"
REJECT_INVITATION == "Your invitation isn't valid - it may have been revoked"
REJECT_TEAM == "This is not the team I was invited to"
PEER_WAS_REMOVED == "You were removed from the team"
TIMED_OUT == "Connection timed out"

\* ------------------------------------------------------------------------
\* State
\* ------------------------------------------------------------------------

\* the users whose graphs the graph specification follows
Replicas == {"alice", "bob", "charlie"}
NoGraphs == [u \in Replicas |-> NoTeam]

Peers == {"a", "b"}
Other(p) == IF p = "a" THEN "b" ELSE "a"

VARIABLES
  config,     \* how each side was set up (member, invitee or scripted peer); never changes
  state,      \* state[p]: the state value of p's machine
  context,    \* context[p]: the ConnectionContext of p's machine (context.team is p's Team)
  net,        \* net[p]: messages sent to p and not yet delivered, in sending order
  outIndex,   \* outIndex[p]: Connection.outgoingMessageIndex
  incoming,   \* incoming[p]: the indexes held in Connection.incomingMessageQueue
  trace,      \* trace[p]: history of what p's machine did (milestones, messages sent)
  emitted,    \* emitted[p]: how many times p emitted 'connected' / 'disconnected'
  stopped,    \* stopped[p]: stop() has been called on p
  scriptPos,  \* how many messages a scripted peer has written so far
  arrivals,   \* ordered delivery: indexes the transport has not handed to deliver() yet
  calls,      \* ordered delivery: the running deliver() calls, each with the messages it still has to send
  machineLog, \* ordered delivery: the indexes sent to the machine, in order
  origin,     \* graphs: the graph each replica starts with; never changes
  replica,    \* graphs: replica[u] is the graph user u's Team holds
  team,       \* facade: alice's Team object (chain, state, the call that threw last if the last call threw)
  envelope,   \* facade: the envelope alice encrypted last, and how the last decrypt went
  storage,    \* facade: the chain as saved, perhaps tampered with, and what loading it gave
  provider    \* coordinator: the AuthProvider's maps, its connections and what they were given

protoVars == <<config, state, context, net, outIndex, trace, emitted, stopped, scriptPos>>
deliveryVars == <<arrivals, calls, machineLog>>
graphVars == <<origin, replica>>
facadeVars == <<team, envelope, storage, provider>>
vars == <<config, state, context, net, outIndex, incoming, trace, emitted, stopped,
          scriptPos, arrivals, calls, machineLog, origin, replica,
          team, envelope, storage, provider>>

\* the facade and the coordinator are not part of this specification
FacadeUnused == team = <<>> /\ envelope = <<>> /\ storage = <<>> /\ provider = <<>>

\* machine state values (only the states the machine can rest in)
S(name) == [name |-> name, proving |-> "", verifying |-> ""]
Authenticating(proving, verifying) ==
  [name |-> "authenticating", proving |-> proving, verifying |-> verifying]

InitialContext(c) ==
  [user |-> c.user,
   keys |-> c.keys,
   team |-> IF c.kind = "member" THEN Chain(c.head) ELSE NoTeam,
   invitationSeed |-> c.seed,
   theirIdentityClaim |-> "",
   theyHaveInvitation |-> FALSE,
   theirProofOfInvitation |-> NoProof,
   challenge |-> NoChallenge,
   peer |-> NoMember,
   theirHead |-> NoLink,
   seed |-> 0,
   theirEncryptedSeed |-> NoCipher,
   sessionKey |-> NoSessionKey,
   error |-> ""]

\* ------------------------------------------------------------------------
\* Initial graphs and set-ups (as the tests build them)
\* ------------------------------------------------------------------------

\* alice founds the team and adds bob and dwight
RootLink == Link("ROOT", "alice", "alice", "real", {})
AddBob == Link("ADD_MEMBER", "alice", "bob", "real", {RootLink})
BaseHead == Link("ADD_MEMBER", "alice", "dwight", "real", {AddBob})
\* alice and bob each do something the other has not seen
AliceRole == Link("ADD_ROLE", "alice", "managers", "", {BaseHead})
BobRole == Link("ADD_ROLE", "bob", "finance", "", {BaseHead})
\* dwight removes bob, or alice
RemoveBob == Link("REMOVE_MEMBER", "dwight", "bob", "", {BaseHead})
RemoveAlice == Link("REMOVE_MEMBER", "dwight", "alice", "", {BaseHead})
\* alice invites charlie (Team.invite: ADD_MEMBER with starter keys, then INVITE)
AddCharlie == Link("ADD_MEMBER", "alice", "charlie", "starter", {BaseHead})
InviteCharlie == Link("INVITE", "alice", "charlie", "id1", {AddCharlie})
RevokeCharlie == Link("REVOKE_INVITATION", "alice", "", "id1", {InviteCharlie})
AdmitCharlie == Link("ADMIT", "alice", "", "id1", {InviteCharlie})
\* eve's own team, founded under alice's name, with an invitation of her own for charlie
EveRoot == Link("ROOT", "alice", "alice", "fake", {})
EveAddCharlie == Link("ADD_MEMBER", "alice", "charlie", "starter", {EveRoot})
EveInvite == Link("INVITE", "alice", "charlie", "id2", {EveAddCharlie})
\* the team of somebody who was never on alice's team
CharlieRoot == Link("ROOT", "charlie", "charlie", "real", {})

\* bob adds his phone; then, the phone stolen, he removes it from his laptop
PhoneAdded == Link("ADD_DEVICE", "bob", "bob", "phone", {BaseHead})
PhoneRemoved == Link("REMOVE_DEVICE", "bob", "bob", "phone", {PhoneAdded})

MemberSetup(user, head) ==
  [kind |-> "member", user |-> user, keys |-> Keys(user, "real"), head |-> head, seed |-> "",
   device |-> "laptop"]
\* a context put together from a user, the user's team and one of the user's
\* devices (the tests' phoneContext = {device: bob.phone, user: bob.user, team: bob.team})
DeviceSetup(user, deviceName, head) ==
  [kind |-> "member", user |-> user, keys |-> Keys(user, "real"), head |-> head, seed |-> "",
   device |-> deviceName]
InviteeSetup(user, seed) ==
  [kind |-> "invitee", user |-> user, keys |-> Keys(user, "real"), head |-> NoLink, seed |-> seed,
   device |-> "laptop"]
\* somebody who is on no team and holds no invitation (the tests' { member: false })
StrangerSetup(user) ==
  [kind |-> "stranger", user |-> user, keys |-> Keys(user, "real"), head |-> NoLink, seed |-> "",
   device |-> "laptop"]
\* a peer driven by hand: it says HELLO as `user` and then writes one more message
\* (see Script)
ScriptedSetup(user, head) ==
  [kind |-> "scripted", user |-> user, keys |-> Keys(user, "fake"), head |-> head, seed |-> "",
   device |-> ""]

Setup(a, b) == [a |-> a, b |-> b]

MemberConfigs ==
  { Setup(MemberSetup("alice", ha), MemberSetup("bob", hb)) :
      ha \in {BaseHead, AliceRole, RemoveBob},
      hb \in {BaseHead, BobRole, RemoveBob, RemoveAlice} }
  \cup { Setup(MemberSetup("alice", BaseHead), MemberSetup("charlie", BaseHead)),
         Setup(MemberSetup("alice", BaseHead), MemberSetup("charlie", CharlieRoot)),
         Setup(MemberSetup("alice", BaseHead), StrangerSetup("charlie")) }

InviteeConfigs ==
  { Setup(MemberSetup("alice", h), InviteeSetup(u, sd)) :
      h \in {InviteCharlie, RevokeCharlie, AdmitCharlie, BaseHead},
      u \in {"charlie", "eve"}, sd \in {"s1", "s2"} }
  \cup { Setup(InviteeSetup("charlie", "s1"), InviteeSetup("eve", "s2")) }

ScriptedConfigs ==
  { Setup(InviteeSetup("charlie", "s1"), ScriptedSetup("alice", h)) :
      h \in {EveInvite, AdmitCharlie} }

\* somebody starts a connection from bob's removed phone with alice, who knows
\* of the removal
DeviceConfigs ==
  { Setup(MemberSetup("alice", PhoneRemoved), DeviceSetup("bob", "phone", PhoneRemoved)) }

\* somebody who has recorded bob's answer to an earlier challenge says HELLO as
\* bob to alice and answers her challenge with the recording
ReplayConfigs ==
  { Setup(MemberSetup("alice", BaseHead), ScriptedSetup("bob", BaseHead)) }

Configs == MemberConfigs \cup InviteeConfigs \cup ScriptedConfigs \cup DeviceConfigs
             \cup ReplayConfigs

\* ------------------------------------------------------------------------
\* The connection machine.  A run r is what processing one event does to a
\* connection: its new state value and context, the messages it sends (out),
\* what it adds to its history (tr), and the events it emits.
\* ------------------------------------------------------------------------

Run(st, ctx) == [st |-> st, ctx |-> ctx, out |-> <<>>, tr |-> <<>>, conn |-> 0, disc |-> 0]

Send(r, msg) == [r EXCEPT !.out = Append(@, msg), !.tr = Append(@, msg.type)]
Note(r, what) == [r EXCEPT !.tr = Append(@, what)]

\* guards
iHaveInvitation(ctx) == ctx.invitationSeed # ""
\* a theyHaveInvitation that overlooks the peer's proof of invitation
theyHaveInvitationNever(ctx) == FALSE

theyHaveInvitation(ctx) == ctx.theirProofOfInvitation # NoProof
\* a bothHaveInvitation that never notices that both sides hold an invitation
bothHaveInvitationNever(ctx) == FALSE

bothHaveInvitation(ctx) == iHaveInvitation(ctx) /\ theyHaveInvitation(ctx)
\* an invitationProofIsValid that admits whatever proof is shown
invitationProofIsValidAlways(ctx) == TRUE

invitationProofIsValid(ctx) == CanAdmit(ctx.team, ctx.theirProofOfInvitation)
myProofOfInvitation(ctx) == GenerateProof(ctx.invitationSeed, ctx.user)
\* a joinedTheRightTeam that trusts any graph it is sent
joinedTheRightTeamAlways(ctx, event) == TRUE

joinedTheRightTeam(ctx, event) == HasInvitation(event.chain, myProofOfInvitation(ctx))
\* an identityIsKnown that accepts any claimed name
identityIsKnownAlways(ctx) == TRUE

identityIsKnown(ctx) ==
  IF ctx.team = NoTeam THEN TRUE ELSE Has(ctx.team, ctx.theirIdentityClaim)
\* an identityProofIsValid that does not compare the challenge with the one issued
identityProofIsValidForAnyChallenge(ctx, event) ==
  IdentityVerify(event.challenge, event.proof, Member(ctx.team, event.challenge.name).keys)

identityProofIsValid(ctx, event) ==
  IF ctx.challenge # event.challenge THEN FALSE
  ELSE IdentityVerify(event.challenge, event.proof,
                      Member(ctx.team, event.challenge.name).keys)
\* a headsAreEqual that is satisfied by any head
headsAreEqualAlways(ctx, event) == TRUE

headsAreEqual(ctx, event) == ctx.team.head = event.head
headsAreDifferent(ctx, event) == ~headsAreEqual(ctx, event)
peerWasRemoved(ctx) == ~Has(ctx.team, ctx.peer.userName)

\* fail(message): records the error, sends ERROR to the local machine and to the peer;
\* the transition goes to #failure and from there to #disconnected.  The ERROR sent
\* to the local machine is processed right after: receiveError, #failure, #disconnected.
Fail(r, message) ==
  LET r1 == Send([r EXCEPT !.ctx.error = message], ErrorMessage(message))
  IN  [r1 EXCEPT !.st = S("disconnected"), !.disc = @ + 2]

\* sendUpdate
sendUpdate(r) == Send(r, UpdateMessage(r.ctx.team))

\* negotiating: sendingSeed.sending (entry sendSeed), receivingSeed.waiting.
\* sendSeed asserts context.peer; when it throws the state has already changed.
EnterNegotiating(r) ==
  LET r1 == [r EXCEPT !.st = S("negotiating")]
  IN  IF r1.ctx.peer = NoMember
        THEN Note(r1, "THROW")
        ELSE Note(Send(r1, SeedMessage(Encrypt(r1.ctx.seed, r1.ctx.peer.keys, r1.ctx.keys))),
                  "SEED_SENT")

\* synchronizing.onDone: generateSeed, then negotiating
SyncDone(r, newSeed) ==
  EnterNegotiating(Note([r EXCEPT !.ctx.seed = newSeed], "SYNC_DONE"))

\* connecting.onDone: sendUpdate, target synchronizing; sendingUpdate: entry sendUpdate, always waiting
EnterSynchronizing(r) ==
  sendUpdate(sendUpdate([r EXCEPT !.st = S("synchronizing")]))

\* authenticating.onDone: storePeer, then connecting.done
AuthDone(r) ==
  EnterSynchronizing(
    Note([r EXCEPT !.ctx.peer = Member(r.ctx.team, r.ctx.theirIdentityClaim)], "AUTH_DONE"))

\* challengeIdentity
challengeIdentity(r, p) ==
  LET challenge == IdentityChallenge(r.ctx.theirIdentityClaim, p)
  IN  Send([r EXCEPT !.ctx.challenge = challenge], ChallengeIdentityMessage(challenge))

\* entering #authenticating: both regions start, and their eventless transitions are taken
EnterAuthenticating(r, p) ==
  LET proving == IF iHaveInvitation(r.ctx) THEN "done" ELSE "awaitingIdentityChallenge"
  IN  IF theyHaveInvitation(r.ctx)
        THEN IF proving = "done"
               THEN AuthDone(r)
               ELSE [r EXCEPT !.st = Authenticating(proving, "done")]
      ELSE IF identityIsKnown(r.ctx)
        THEN [challengeIdentity(r, p) EXCEPT !.st = Authenticating(proving, "awaitingIdentityProof")]
      ELSE Fail(r, REJECT_IDENTITY)

\* idle, on HELLO: receiveHello, then connecting.maybeHandlingInvitations.initializing
OnHelloRun(r0, p, event) ==
  LET r == Note([r0 EXCEPT !.ctx.theirIdentityClaim = event.identityClaim,
                           !.ctx.theyHaveInvitation = (event.proofOfInvitation # NoProof),
                           !.ctx.theirProofOfInvitation = event.proofOfInvitation],
                "HELLO_RECEIVED")
  IN  IF bothHaveInvitation(r.ctx) THEN Fail(r, NEITHER_IS_MEMBER)
      ELSE IF iHaveInvitation(r.ctx) THEN [r EXCEPT !.st = S("awaitingInvitationAcceptance")]
      ELSE IF theyHaveInvitation(r.ctx)
        THEN \* validatingInvitationProof: the guard itself admits the invitee
             IF invitationProofIsValid(r.ctx)
               THEN LET admitted == [r EXCEPT !.ctx.team =
                                       Admit(r.ctx.team, r.ctx.theirProofOfInvitation, r.ctx.user)]
                    IN  EnterAuthenticating(
                          Send(admitted, AcceptInvitationMessage(admitted.ctx.team)), p)
               ELSE Fail(r, REJECT_INVITATION)
      ELSE EnterAuthenticating(r, p)

\* awaitingInvitationAcceptance, on ACCEPT_INVITATION
OnAcceptInvitationRun(r, p, event) ==
  IF joinedTheRightTeam(r.ctx, event)
    THEN EnterAuthenticating(
           Note([r EXCEPT !.ctx.team = Join(event.chain, r.ctx.user, r.ctx.keys)], "JOINED"), p)
    ELSE Fail(r, REJECT_TEAM)

\* provingOurIdentity.awaitingIdentityChallenge, on CHALLENGE_IDENTITY: proveIdentity
OnChallengeIdentityRun(r, event) ==
  Send([r EXCEPT !.st.proving = "awaitingIdentityAcceptance"],
       ProveIdentityMessage(event.challenge, IdentityProve(event.challenge, r.ctx.keys)))

\* verifyingTheirIdentity.awaitingIdentityProof, on PROVE_IDENTITY
OnProveIdentityRun(r, event) ==
  IF identityProofIsValid(r.ctx, event)
    THEN LET r1 == Send([r EXCEPT !.st.verifying = "done"], AcceptIdentityMessage)
         IN  IF r1.st.proving = "done" THEN AuthDone(r1) ELSE r1
    ELSE Fail(r, REJECT_IDENTITY)

\* provingOurIdentity.awaitingIdentityAcceptance, on ACCEPT_IDENTITY
OnAcceptIdentityRun(r, event) ==
  LET r1 == [r EXCEPT !.st.proving = "done"]
  IN  IF r1.st.verifying = "done" THEN AuthDone(r1) ELSE r1

\* a sendMissingLinks that never sends the links the peer lacks
sendMissingLinksNever(r, event) == r

\* sendMissingLinks (asserts that the roots are the same; nothing is sent when it throws)
sendMissingLinks(r, event) ==
  IF r.ctx.team.root # event.root THEN Note(r, "THROW")
  ELSE IF event.head = r.ctx.team.head THEN r
  ELSE LET missingLinks == r.ctx.team.links \ event.links
       IN  IF missingLinks # {}
             THEN Send(r, MissingLinksMessage(r.ctx.team.head, missingLinks))
             ELSE r

\* synchronizing, on UPDATE: recordTheirHead, then receivingUpdate
OnUpdateRun(r0, event, newSeed) ==
  LET r == [r0 EXCEPT !.ctx.theirHead = event.head]
  IN  IF headsAreEqual(r.ctx, event)
        THEN SyncDone(r, newSeed)
        ELSE sendMissingLinks([r EXCEPT !.st = S("synchronizing")], event)

\* connected, on UPDATE with a different head: back to synchronizing (sendingUpdate, waiting)
OnUpdateConnectedRun(r) == sendUpdate([r EXCEPT !.st = S("synchronizing")])

\* receiveMissingLinks: do the links we are given reference a link we do not have?
MissingParents(ctx, event) ==
  LET allLinks == ctx.team.links \cup event.links
  IN  {h \in UNION {l.prev : l \in event.links} : h \notin allLinks}

\* refreshContext
refreshContext(ctx) ==
  [ctx EXCEPT !.peer = IF Has(ctx.team, ctx.peer.userName)
                         THEN Member(ctx.team, ctx.peer.userName)
                         ELSE NoMember]

\* a receivingMissingLinks that is left without telling the peer
leaveReceivingMissingLinksSilently(r) == r

\* receivingMissingLinks, exit: sendUpdate (refreshContext has been applied by then)
leaveReceivingMissingLinks(r) == sendUpdate(r)

\* synchronizing, on MISSING_LINKS: recordTheirHead, receiveMissingLinks, then
\* receivingMissingLinks, whose exit actions are refreshContext and sendUpdate.
\* An assertion that fails while the transition is computed leaves the machine where
\* it was; the Team object has been merged in place by then.
OnMissingLinksRun(r0, event, newSeed) ==
  IF MissingParents(r0.ctx, event) # {} THEN Note(r0, "THROW")
  ELSE
    LET theirChain == [root |-> r0.ctx.team.root, head |-> event.head,
                       links |-> r0.ctx.team.links \cup event.links]
        merged == MergeChains(r0.ctx.team, theirChain)
    IN  IF r0.ctx.peer = NoMember
          THEN Note([r0 EXCEPT !.ctx.team = merged], "THROW")
          ELSE
            LET r == [r0 EXCEPT !.ctx = refreshContext([r0.ctx EXCEPT !.theirHead = event.head,
                                                                      !.team = merged])]
            IN  IF headsAreEqual(r.ctx, event)
                  THEN SyncDone(leaveReceivingMissingLinks(r), newSeed)
                  ELSE leaveReceivingMissingLinks([r EXCEPT !.st = S("synchronizing")])

\* negotiating, on SEED: receiveSeed, receivingSeed.done; negotiating.onDone:
\* deriveSharedKey, then connected (entry onConnected)
\* a deriveSharedKey that hashes our seed first and their seed second
deriveSharedKeyOursFirst(ctx) == [lo |-> ctx.seed, hi |-> ctx.theirEncryptedSeed.secret]

deriveSharedKey(ctx) == DeriveSharedKey(ctx.seed, ctx.theirEncryptedSeed.secret)

OnSeedRun(r0, event) ==
  LET r == [r0 EXCEPT !.ctx.theirEncryptedSeed = event.encryptedSeed]
  IN  IF r.ctx.seed = 0 \/ r.ctx.peer = NoMember
         \/ ~CanDecrypt(r.ctx.theirEncryptedSeed, r.ctx.peer.keys, r.ctx.keys)
        THEN Note(r0, "THROW")
        ELSE Note(Note([r EXCEPT !.ctx.sessionKey = deriveSharedKey(r.ctx),
                                 !.st = S("connected"),
                                 !.conn = @ + 1],
                       "SEED_RECEIVED"), "CONNECTED")

\* any state, on ERROR: receiveError, #failure, #disconnected (entry onDisconnected)
OnErrorRun(r, event) ==
  Note([r EXCEPT !.ctx.error = event.message, !.st = S("disconnected"), !.disc = @ + 1],
       "ERROR_RECEIVED")

\* connected, on DISCONNECT: #disconnected
OnDisconnectRun(r) == [r EXCEPT !.st = S("disconnected"), !.disc = @ + 1]

\* ------------------------------------------------------------------------
\* Ordered delivery
\* ------------------------------------------------------------------------

RECURSIVE RunFrom(_, _)
\* the indexes i, i+1, ... that are in the queue without a gap
RunFrom(queue, i) == IF i \in queue THEN <<i>> \o RunFrom(queue, i + 1) ELSE <<>>

\* orderedDelivery(queue, message): the message is stored under its index; it is
\* released, with the messages queued right behind it, once every lower index has arrived
OrderedDelivery(queue, index) ==
  [queue |-> queue \cup {index},
   nextMessages |-> IF index \notin queue /\ \A i \in 0..(index - 1) : i \in queue
                      THEN RunFrom(queue \cup {index}, index)
                      ELSE <<>>]

\* ------------------------------------------------------------------------
\* Actions of the protocol specification
\* ------------------------------------------------------------------------

\* Connection.sendMessage: every message gets the next outgoing index
Numbered(out, start) == [i \in 1..Len(out) |-> [out[i] EXCEPT !.index = start + i - 1]]

\* the effect of a run of p's machine on the variables; `consumed` says whether the
\* run was started by the first message waiting for p
Apply(p, r, consumed) ==
  /\ state' = [state EXCEPT ![p] = r.st]
  /\ context' = [context EXCEPT ![p] = r.ctx]
  /\ net' = [q \in Peers |->
               IF q = p THEN (IF consumed THEN Tail(net[p]) ELSE net[p])
               ELSE net[q] \o Numbered(r.out, outIndex[p])]
  /\ outIndex' = [outIndex EXCEPT ![p] = @ + Len(r.out)]
  /\ incoming' = [incoming EXCEPT ![p] = IF consumed
                                           THEN OrderedDelivery(@, Head(net[p]).index).queue
                                           ELSE @]
  /\ trace' = [trace EXCEPT ![p] = @ \o r.tr]
  /\ emitted' = [emitted EXCEPT ![p] = [connected |-> @.connected + r.conn,
                                        disconnected |-> @.disconnected + r.disc]]

\* Connection.deliver hands the first waiting message to the machine: the channel keeps
\* the sending order, so orderedDelivery releases exactly that message
Delivers(p, type) ==
  /\ state[p].name # "unstarted"
  /\ net[p] # <<>>
  /\ Head(net[p]).type = type
  /\ OrderedDelivery(incoming[p], Head(net[p]).index).nextMessages = <<Head(net[p]).index>>

Here(p) == Run(state[p], context[p])

\* does the machine have a transition for this event in this state?
Handles(st, ctx, event) ==
  CASE event.type = "HELLO" -> st.name = "idle"
    [] event.type = "ACCEPT_INVITATION" -> st.name = "awaitingInvitationAcceptance"
    [] event.type = "CHALLENGE_IDENTITY" -> st.proving = "awaitingIdentityChallenge"
    [] event.type = "PROVE_IDENTITY" -> st.verifying = "awaitingIdentityProof"
    [] event.type = "ACCEPT_IDENTITY" -> st.proving = "awaitingIdentityAcceptance"
    [] event.type = "UPDATE" -> \/ st.name = "synchronizing"
                                \/ st.name = "connected" /\ headsAreDifferent(ctx, event)
    [] event.type = "MISSING_LINKS" -> st.name = "synchronizing"
    [] event.type = "SEED" -> st.name = "negotiating"
    [] event.type = "ERROR" -> TRUE
    [] event.type = "DISCONNECT" -> st.name = "connected"
    [] OTHER -> FALSE

\* Connection.start: the machine starts in idle; its entry action is sendHello
Start(p) ==
  /\ config[p].kind # "scripted"
  /\ state[p].name = "unstarted"
  /\ Apply(p, Send(Run(S("idle"), context[p]),
                   HelloMessage(context[p].user,
                                IF context[p].invitationSeed # ""
                                  THEN myProofOfInvitation(context[p]) ELSE NoProof)),
           FALSE)
  /\ UNCHANGED <<config, stopped, scriptPos, deliveryVars, graphVars, facadeVars>>

OnHello(p) ==
  /\ Delivers(p, "HELLO")
  /\ Handles(state[p], context[p], Head(net[p]))
  /\ Apply(p, OnHelloRun(Here(p), p, Head(net[p])), TRUE)
  /\ UNCHANGED <<config, stopped, scriptPos, deliveryVars, graphVars, facadeVars>>

OnAcceptInvitation(p) ==
  /\ Delivers(p, "ACCEPT_INVITATION")
  /\ Handles(state[p], context[p], Head(net[p]))
  /\ Apply(p, OnAcceptInvitationRun(Here(p), p, Head(net[p])), TRUE)
  /\ UNCHANGED <<config, stopped, scriptPos, deliveryVars, graphVars, facadeVars>>

OnChallengeIdentity(p) ==
  /\ Delivers(p, "CHALLENGE_IDENTITY")
  /\ Handles(state[p], context[p], Head(net[p]))
  /\ Apply(p, OnChallengeIdentityRun(Here(p), Head(net[p])), TRUE)
  /\ UNCHANGED <<config, stopped, scriptPos, deliveryVars, graphVars, facadeVars>>

OnProveIdentity(p) ==
  /\ Delivers(p, "PROVE_IDENTITY")
  /\ Handles(state[p], context[p], Head(net[p]))
  /\ Apply(p, OnProveIdentityRun(Here(p), Head(net[p])), TRUE)
  /\ UNCHANGED <<config, stopped, scriptPos, deliveryVars, graphVars, facadeVars>>

OnAcceptIdentity(p) ==
  /\ Delivers(p, "ACCEPT_IDENTITY")
  /\ Handles(state[p], context[p], Head(net[p]))
  /\ Apply(p, OnAcceptIdentityRun(Here(p), Head(net[p])), TRUE)
  /\ UNCHANGED <<config, stopped, scriptPos, deliveryVars, graphVars, facadeVars>>

OnUpdate(p) ==
  /\ Delivers(p, "UPDATE")
  /\ Handles(state[p], context[p], Head(net[p]))
  /\ IF state[p].name = "connected"
       THEN Apply(p, OnUpdateConnectedRun(Here(p)), TRUE)
       ELSE \E newSeed \in 1..MaxSeed :
              Apply(p, OnUpdateRun(Here(p), Head(net[p]), newSeed), TRUE)
  /\ UNCHANGED <<config, stopped, scriptPos, deliveryVars, graphVars, facadeVars>>

OnMissingLinks(p) ==
  /\ Delivers(p, "MISSING_LINKS")
  /\ Handles(state[p], context[p], Head(net[p]))
  /\ \E newSeed \in 1..MaxSeed :
       Apply(p, OnMissingLinksRun(Here(p), Head(net[p]), newSeed), TRUE)
  /\ UNCHANGED <<config, stopped, scriptPos, deliveryVars, graphVars, facadeVars>>

OnSeed(p) ==
  /\ Delivers(p, "SEED")
  /\ Handles(state[p], context[p], Head(net[p]))
  /\ Apply(p, OnSeedRun(Here(p), Head(net[p])), TRUE)
  /\ UNCHANGED <<config, stopped, scriptPos, deliveryVars, graphVars, facadeVars>>

OnError(p) ==
  /\ Delivers(p, "ERROR")
  /\ Apply(p, OnErrorRun(Here(p), Head(net[p])), TRUE)
  /\ UNCHANGED <<config, stopped, scriptPos, deliveryVars, graphVars, facadeVars>>

OnDisconnect(p) ==
  /\ Delivers(p, "DISCONNECT")
  /\ Handles(state[p], context[p], Head(net[p]))
  /\ Apply(p, OnDisconnectRun(Here(p)), TRUE)
  /\ UNCHANGED <<config, stopped, scriptPos, deliveryVars, graphVars, facadeVars>>

\* an event the current state has no transition for is dropped
Ignore(p) ==
  /\ Delivers(p, Head(net[p]).type)
  /\ ~Handles(state[p], context[p], Head(net[p]))
  /\ Apply(p, Here(p), TRUE)
  /\ UNCHANGED <<config, stopped, scriptPos, deliveryVars, graphVars, facadeVars>>

\* the states that carry the 7-second `after` transition
HasTimeout(st) ==
  \/ st.name = "awaitingInvitationAcceptance"
  \/ st.proving \in {"awaitingIdentityChallenge", "awaitingIdentityAcceptance"}
  \/ st.verifying = "awaitingIdentityProof"

\* after TIMEOUT_DELAY: failTimeout, #failure
Timeout(p) ==
  /\ HasTimeout(state[p])
  /\ Apply(p, Fail(Note(Here(p), "TIMEOUT"), TIMED_OUT), FALSE)
  /\ UNCHANGED <<config, stopped, scriptPos, deliveryVars, graphVars, facadeVars>>

\* Connection.stop: DISCONNECT to the local machine, then to the peer
Stop(p) ==
  /\ state[p].name # "unstarted"
  /\ ~stopped[p]
  /\ stopped' = [stopped EXCEPT ![p] = TRUE]
  /\ Apply(p, Send(IF state[p].name = "connected" THEN OnDisconnectRun(Here(p)) ELSE Here(p),
                   DisconnectMessage),
           FALSE)
  /\ UNCHANGED <<config, scriptPos, deliveryVars, graphVars, facadeVars>>

\* the role a user adds in a local mutation
LocalRole(p) == IF p = "a" THEN "designers" ELSE "testers"

\* the application changes the team while the connection is connected (Team.addRole:
\* dispatch appends the link and reduces it).  Nothing in the connection listens to
\* the team, and no action of the machine is run.  Each side does this at most once.
LocalMutation(p) ==
  /\ state[p].name = "connected"
  /\ \A l \in context[p].team.links : ~(l.type = "ADD_ROLE" /\ l.name = LocalRole(p))
  /\ context' = [context EXCEPT ![p].team =
                   Dispatch(@, "ADD_ROLE", context[p].user, LocalRole(p), "")]
  /\ UNCHANGED <<config, state, net, outIndex, incoming, trace, emitted, stopped, scriptPos,
                 deliveryVars, graphVars, facadeVars>>

\* what a scripted peer writes: HELLO under its claimed name, then ACCEPT_INVITATION
\* the challenge of an earlier connection, which bob answered with his keys
RecordedChallenge == IdentityChallenge("bob", "earlier")

\* what a peer driven by hand writes: as alice, HELLO and the acceptance of the
\* invitation with the graph of `head`; as bob, HELLO and the recorded proof
Script(c) ==
  IF c.user = "bob"
    THEN <<HelloMessage(c.user, NoProof),
           ProveIdentityMessage(RecordedChallenge,
                                IdentityProve(RecordedChallenge, Keys("bob", "real")))>>
    ELSE <<HelloMessage(c.user, NoProof), AcceptInvitationMessage(Chain(c.head))>>

ScriptedSend(p) ==
  /\ config[p].kind = "scripted"
  /\ scriptPos < Len(Script(config[p]))
  /\ scriptPos' = scriptPos + 1
  /\ net' = [net EXCEPT ![Other(p)] =
               Append(@, [Script(config[p])[scriptPos + 1] EXCEPT !.index = scriptPos])]
  /\ UNCHANGED <<config, state, context, outIndex, incoming, trace, emitted, stopped,
                 deliveryVars, graphVars, facadeVars>>

Init ==
  /\ config \in Configs
  /\ state = [p \in Peers |-> S("unstarted")]
  /\ context = [p \in Peers |-> InitialContext(config[p])]
  /\ net = [p \in Peers |-> <<>>]
  /\ outIndex = [p \in Peers |-> 0]
  /\ incoming = [p \in Peers |-> {}]
  /\ trace = [p \in Peers |-> <<>>]
  /\ emitted = [p \in Peers |-> [connected |-> 0, disconnected |-> 0]]
  /\ stopped = [p \in Peers |-> FALSE]
  /\ scriptPos = 0
  /\ arrivals = {}
  /\ calls = <<>>
  /\ machineLog = <<>>
  /\ origin = NoGraphs
  /\ replica = NoGraphs
  /\ FacadeUnused

Receive(p) ==
  \/ OnHello(p)
  \/ OnAcceptInvitation(p)
  \/ OnChallengeIdentity(p)
  \/ OnProveIdentity(p)
  \/ OnAcceptIdentity(p)
  \/ OnUpdate(p)
  \/ OnMissingLinks(p)
  \/ OnSeed(p)
  \/ OnError(p)
  \/ OnDisconnect(p)
  \/ Ignore(p)

Next ==
  \E p \in Peers :
    \/ Start(p)
    \/ Receive(p)
    \/ Timeout(p)
    \/ Stop(p)
    \/ ScriptedSend(p)
    \/ LocalMutation(p)

Spec == Init /\ [][Next]_vars

\* ------------------------------------------------------------------------
\* The protocol over a reliable channel that delivers in time: no timer fires and
\* nobody calls stop().  Every started connection keeps receiving what is sent to
\* it (the transport calls deliver() for every message), and the application starts
\* both connections.
\* ------------------------------------------------------------------------

ReceiveLive(p) ==
  \/ OnHello(p)
  \/ OnAcceptInvitation(p)
  \/ OnChallengeIdentity(p)
  \/ OnProveIdentity(p)
  \/ OnAcceptIdentity(p)
  \/ OnUpdate(p)
  \/ OnMissingLinks(p)
  \/ OnSeed(p)
  \/ OnError(p)
  \/ Ignore(p)

NextLive ==
  \E p \in Peers :
    \/ Start(p)
    \/ ReceiveLive(p)
    \/ ScriptedSend(p)

LiveSpec ==
  /\ Init
  /\ [][NextLive]_vars
  /\ \A p \in Peers : WF_vars(Start(p)) /\ WF_vars(ReceiveLive(p)) /\ WF_vars(ScriptedSend(p))

\* the same reliable channel, with applications that may change their team while
\* the connection is connected
NextUpdate ==
  \E p \in Peers :
    \/ Start(p)
    \/ ReceiveLive(p)
    \/ ScriptedSend(p)
    \/ LocalMutation(p)

UpdateSpec ==
  /\ Init
  /\ [][NextUpdate]_vars
  /\ \A p \in Peers : WF_vars(Start(p)) /\ WF_vars(ReceiveLive(p)) /\ WF_vars(ScriptedSend(p))

\* ------------------------------------------------------------------------
\* Ordered delivery: the transport hands connection "a" the peer's messages
\* 0 .. MaxIndex-1 in any order, each in a deliver() call of its own; a call
\* that releases several messages pauses after each one, and other calls run
\* during the pause.
\* ------------------------------------------------------------------------

DeliveryInit ==
  /\ config = Setup(MemberSetup("alice", BaseHead), MemberSetup("bob", BaseHead))
  /\ state = [p \in Peers |-> S("unstarted")]
  /\ context = [p \in Peers |-> InitialContext(config[p])]
  /\ net = [p \in Peers |-> <<>>]
  /\ outIndex = [p \in Peers |-> 0]
  /\ incoming = [p \in Peers |-> {}]
  /\ trace = [p \in Peers |-> <<>>]
  /\ emitted = [p \in Peers |-> [connected |-> 0, disconnected |-> 0]]
  /\ stopped = [p \in Peers |-> FALSE]
  /\ scriptPos = 0
  /\ arrivals = 0..(MaxIndex - 1)
  /\ calls = <<>>
  /\ machineLog = <<>>
  /\ origin = NoGraphs
  /\ replica = NoGraphs
  /\ FacadeUnused

\* Connection.deliver, up to its first pause: the queue is updated, and the first
\* released message is sent to the machine
DeliverCall(i) ==
  /\ i \in arrivals
  /\ arrivals' = arrivals \ {i}
  /\ LET d == OrderedDelivery(incoming["a"], i)
     IN  /\ incoming' = [incoming EXCEPT !["a"] = d.queue]
         /\ IF d.nextMessages = <<>>
              THEN UNCHANGED <<calls, machineLog>>
              ELSE /\ machineLog' = Append(machineLog, Head(d.nextMessages))
                   /\ calls' = IF Tail(d.nextMessages) = <<>>
                                 THEN calls
                                 ELSE Append(calls, Tail(d.nextMessages))
  /\ UNCHANGED <<protoVars, graphVars, facadeVars>>

\* Connection.deliver, after a pause: the call sends its next message to the machine
ResumeCall(c) ==
  /\ c \in 1..Len(calls)
  /\ machineLog' = Append(machineLog, Head(calls[c]))
  /\ calls' = IF Tail(calls[c]) = <<>>
                THEN SubSeq(calls, 1, c - 1) \o SubSeq(calls, c + 1, Len(calls))
                ELSE [calls EXCEPT ![c] = Tail(@)]
  /\ UNCHANGED <<protoVars, incoming, arrivals, graphVars, facadeVars>>

DeliveryNext ==
  \/ \E i \in 0..(MaxIndex - 1) : DeliverCall(i)
  \/ \E c \in 1..MaxIndex : ResumeCall(c)

DeliverySpec == DeliveryInit /\ [][DeliveryNext]_vars

\* ------------------------------------------------------------------------
\* Graphs: alice, bob and charlie each hold a copy of the team's graph, change it
\* while apart, and merge each other's graphs in any order (Team.merge).
\* ------------------------------------------------------------------------

\* alice founds the team, then adds bob and charlie and makes both admins
TeamBase ==
  LET BobAdmin == Link("ADD_MEMBER_ROLE", "alice", "bob", "admin", {AddBob})
      AddCharlieMember == Link("ADD_MEMBER", "alice", "charlie", "real", {BobAdmin})
  IN  Link("ADD_MEMBER_ROLE", "alice", "charlie", "admin", {AddCharlieMember})

\* the graphs of alice, bob and charlie after each has appended its actions to the
\* common graph while apart from the others
Branches(a, b, c) ==
  LET RECURSIVE build(_, _)
      build(actions, k) ==
        IF k = 0 THEN TeamBase
        ELSE Link(actions[k][1], actions[k][2], actions[k][3], actions[k][4],
                  {build(actions, k - 1)})
  IN  [alice |-> Chain(build(a, Len(a))),
       bob |-> Chain(build(b, Len(b))),
       charlie |-> Chain(build(c, Len(c)))]

ScenarioNames == {"unchanged", "alice ahead", "diverged", "mutual removals",
                  "mutual demotions", "demoted makes changes", "demoted adds device",
                  "circular demotions", "concurrent admits"}

Scenario(name) ==
  CASE name = "unchanged" -> Branches(<<>>, <<>>, <<>>)
    [] name = "alice ahead" -> Branches(<<<<"ADD_ROLE", "alice", "managers", "">>>>, <<>>, <<>>)
    [] name = "diverged" ->
         Branches(<<<<"ADD_ROLE", "alice", "managers", "">>,
                    <<"ADD_MEMBER_ROLE", "alice", "charlie", "managers">>>>,
                  <<<<"ADD_ROLE", "bob", "finance", "">>>>,
                  <<>>)
    \* alice and bob remove each other; alice also adds a role
    [] name = "mutual removals" ->
         Branches(<<<<"REMOVE_MEMBER", "alice", "bob", "">>,
                    <<"ADD_ROLE", "alice", "managers", "">>>>,
                  <<<<"REMOVE_MEMBER", "bob", "alice", "">>>>,
                  <<>>)
    \* alice and bob demote each other; alice also adds a role
    [] name = "mutual demotions" ->
         Branches(<<<<"REMOVE_MEMBER_ROLE", "alice", "bob", "admin">>,
                    <<"ADD_ROLE", "alice", "managers", "">>>>,
                  <<<<"REMOVE_MEMBER_ROLE", "bob", "alice", "admin">>>>,
                  <<>>)
    \* alice demotes bob, who meanwhile adds a role, invites dwight and admits him
    [] name = "demoted makes changes" ->
         Branches(<<<<"REMOVE_MEMBER_ROLE", "alice", "bob", "admin">>>>,
                  <<<<"ADD_ROLE", "bob", "finance", "">>,
                    <<"ADD_MEMBER", "bob", "dwight", "starter">>,
                    <<"INVITE", "bob", "dwight", "id1">>,
                    <<"ADMIT", "bob", "", "id1">>>>,
                  <<>>)
    \* alice demotes bob, who meanwhile adds his phone and changes his keys
    [] name = "demoted adds device" ->
         Branches(<<<<"REMOVE_MEMBER_ROLE", "alice", "bob", "admin">>>>,
                  <<<<"ADD_DEVICE", "bob", "bob", "phone">>,
                    <<"CHANGE_MEMBER_KEYS", "bob", "bob", "new">>>>,
                  <<>>)
    \* bob demotes charlie, charlie demotes alice, alice demotes bob
    [] name = "circular demotions" ->
         Branches(<<<<"REMOVE_MEMBER_ROLE", "alice", "bob", "admin">>>>,
                  <<<<"REMOVE_MEMBER_ROLE", "bob", "charlie", "admin">>>>,
                  <<<<"REMOVE_MEMBER_ROLE", "charlie", "alice", "admin">>>>)
    \* alice invites dwight and everyone learns of it; then alice and bob, apart
    \* from each other, both admit him
    [] name = "concurrent admits" ->
         Branches(<<<<"ADD_MEMBER", "alice", "dwight", "starter">>,
                    <<"INVITE", "alice", "dwight", "id1">>,
                    <<"ADMIT", "alice", "", "id1">>>>,
                  <<<<"ADD_MEMBER", "alice", "dwight", "starter">>,
                    <<"INVITE", "alice", "dwight", "id1">>,
                    <<"ADMIT", "bob", "", "id1">>>>,
                  <<<<"ADD_MEMBER", "alice", "dwight", "starter">>,
                    <<"INVITE", "alice", "dwight", "id1">>>>)

GraphInit ==
  /\ config = Setup(MemberSetup("alice", BaseHead), MemberSetup("bob", BaseHead))
  /\ state = [p \in Peers |-> S("unstarted")]
  /\ context = [p \in Peers |-> InitialContext(config[p])]
  /\ net = [p \in Peers |-> <<>>]
  /\ outIndex = [p \in Peers |-> 0]
  /\ incoming = [p \in Peers |-> {}]
  /\ trace = [p \in Peers |-> <<>>]
  /\ emitted = [p \in Peers |-> [connected |-> 0, disconnected |-> 0]]
  /\ stopped = [p \in Peers |-> FALSE]
  /\ scriptPos = 0
  /\ arrivals = {}
  /\ calls = <<>>
  /\ machineLog = <<>>
  /\ origin \in {Scenario(name) : name \in ScenarioNames}
  /\ replica = origin
  /\ FacadeUnused

\* Team.merge: u merges the graph v holds into its own
TeamMerge(u, v) ==
  /\ u # v
  /\ replica[v].head \notin replica[u].links
  /\ Cardinality({l \in MergeChains(replica[u], replica[v]).links : l.type = "MERGE"})
       <= MaxMerges
  /\ replica' = [replica EXCEPT ![u] = MergeChains(replica[u], replica[v])]
  /\ UNCHANGED <<protoVars, incoming, deliveryVars, origin, facadeVars>>

GraphNext == \E u, v \in Replicas : TeamMerge(u, v)

GraphSpec == GraphInit /\ [][GraphNext]_vars

\* ------------------------------------------------------------------------
\* Linearization (getSequence), the strong-remove resolver and the reducer
\* ------------------------------------------------------------------------

\* what a sequence holds when the walk ran past the graph's root link:
\* graph.nodes.get(undefined) is undefined, and visiting it throws
Thrown == Link("THROWN", "", "", "", {})

Throws(seq) == \E i \in 1..Len(seq) : seq[i] = Thrown

\* getCommonAncestor: the latest link both a and b descend from
GetCommonAncestor(a, b) ==
  LET common == (Ancestors(a) \cup {a}) \cap (Ancestors(b) \cup {b})
  IN  CHOOSE c \in common : \A d \in common : c \notin Ancestors(d)

\* a resolver that lets a member whose authority was revoked keep nothing
KeptNothing == {}

\* what a member whose authority was concurrently revoked may still post
KeptWhenRevoked == {"CHANGE_MEMBER_KEYS", "ADD_DEVICE"}

\* a reconciler that drops no link and joins the two branches in the order given
TrivialReconciler(branchA, branchB) == branchA \o branchB

\* trivialReconciler, the default of getSequence: [a, b].sort(), then the two are
\* concatenated. sort() without a comparator orders its elements by their
\* conversion to strings; a branch is an array of link objects and converts to
\* "[object Object]" once per link, joined by commas. So the shorter branch comes
\* first, and of two branches of the same length (equal strings; the sort is
\* stable) the first argument comes first.
DefaultReconciler(branchA, branchB) ==
  IF Len(branchB) < Len(branchA) THEN branchB \o branchA ELSE branchA \o branchB

\* strong-remove resolver: which links of two concurrent branches survive
StrongRemoveResolver(branchA, branchB) ==
  LET linksOf(br) == {br[i] : i \in 1..Len(br)}
      \* removals and demotions (a REMOVE_DEVICE names a device, and the links
      \* here name their author by user only)
      isRemoval(l) == \/ l.type = "REMOVE_MEMBER"
                      \/ (l.type = "REMOVE_MEMBER_ROLE" /\ l.arg = "admin")
      RA == {l \in linksOf(branchA) : isRemoval(l)}
      RB == {l \in linksOf(branchB) : isRemoval(l)}
      \* seniority: the position at which a user first appears in the graph
      history == UNION {Ancestors(l) \cup {l} : l \in linksOf(branchA) \cup linksOf(branchB)}
      firstAppearance(u) ==
        LET intro == {l \in history : \/ (l.type = "ROOT" /\ l.author = u)
                                       \/ (l.type = "ADD_MEMBER" /\ l.name = u)}
        IN  IF intro = {} THEN Cardinality(history)
            ELSE CHOOSE n \in {Cardinality(Ancestors(l)) : l \in intro} :
                   \A l \in intro : n <= Cardinality(Ancestors(l))
      \* mutual actions: the junior's is dropped
      cancelled(R, otherR) ==
        {l \in R : \E m \in otherR : /\ m.author = l.name
                                      /\ m.name = l.author
                                      /\ firstAppearance(m.author) < firstAppearance(l.author)}
      survivingA == RA \ cancelled(RA, RB)
      survivingB == RB \ cancelled(RB, RA)
      targets(R) == {l.name : l \in R}
      \* cascade: links by a target of a surviving removal in the other branch, and
      \* what depends on them: links by members they added, admissions to their invitations
      byTarget(br, otherSurviving) ==
        {l \in linksOf(br) : /\ l.author \in targets(otherSurviving)
                              /\ l.type \notin KeptWhenRevoked}
      RECURSIVE closure(_, _, _)
      closure(br, dropped, k) ==
        IF k = 0 THEN dropped
        ELSE closure(br,
                     dropped \cup
                       {l \in linksOf(br) :
                          \E d \in dropped :
                            \/ (d.type = "ADD_MEMBER" /\ l.author = d.name)
                            \/ (d.type = "INVITE" /\ l.type = "ADMIT" /\ l.arg = d.arg)},
                     k - 1)
      droppedA == closure(branchA, cancelled(RA, RB) \cup byTarget(branchA, survivingB),
                          Len(branchA))
      droppedB == closure(branchB, cancelled(RB, RA) \cup byTarget(branchB, survivingA),
                          Len(branchB))
      keptA(l) == l \notin droppedA
      keptB(l) == l \notin droppedB
  IN  SelectSeq(branchA, keptA) \o SelectSeq(branchB, keptB)

RECURSIVE GetSequence(_, _)
\* getSequence(graph, {root, head, reconciler}), with the membership resolver
GetSequence(root, head) ==
  LET RECURSIVE visit(_)
      visit(node) ==
        IF node = root THEN <<>>
        ELSE IF node.type # "MERGE"
          THEN IF node.prev = {} THEN <<Thrown>>
               ELSE LET parent == CHOOSE p \in node.prev : TRUE
                    IN  Append(visit(parent), parent)
        ELSE LET a == node.parents[1]
                 b == node.parents[2]
                 ancestor == GetCommonAncestor(a, b)
                 sequenceA == GetSequence(ancestor, a)
                 sequenceB == GetSequence(ancestor, b)
             IN  IF Throws(sequenceA) \/ Throws(sequenceB) THEN <<Thrown>>
                 ELSE Append(visit(ancestor), ancestor)
                        \o StrongRemoveResolver(Tail(sequenceA), Tail(sequenceB))
  IN  Append(visit(head), head)

RECURSIVE GetSequenceByDefault(_, _)
\* getSequence(graph, {root, head}): the reconciler is the default one
GetSequenceByDefault(root, head) ==
  LET RECURSIVE visit(_)
      visit(node) ==
        IF node = root THEN <<>>
        ELSE IF node.type # "MERGE"
          THEN IF node.prev = {} THEN <<Thrown>>
               ELSE LET parent == CHOOSE p \in node.prev : TRUE
                    IN  Append(visit(parent), parent)
        ELSE LET a == node.parents[1]
                 b == node.parents[2]
                 ancestor == GetCommonAncestor(a, b)
                 branchA == GetSequenceByDefault(ancestor, a)
                 branchB == GetSequenceByDefault(ancestor, b)
             IN  IF Throws(branchA) \/ Throws(branchB) THEN <<Thrown>>
                 ELSE Append(visit(ancestor), ancestor)
                        \o DefaultReconciler(Tail(branchA), Tail(branchB))
  IN  Append(visit(head), head)

\* the team state before any link is applied
InitialState ==
  [members |-> {}, admins |-> {}, roles |-> {}, memberRoles |-> {}, devices |-> {},
   keys |-> {}, invitations |-> {}, used |-> {}, revoked |-> {},
   admissions |-> <<>>, lockboxes |-> {}, removedDevices |-> <<>>]

\* getDeviceId({deviceName, userName}): one id for each device of each user
DeviceId(userName, deviceName) ==
  [alice   |-> [laptop |-> "alice::laptop",   phone |-> "alice::phone"],
   bob     |-> [laptop |-> "bob::laptop",     phone |-> "bob::phone"],
   charlie |-> [laptop |-> "charlie::laptop", phone |-> "charlie::phone"]][userName][deviceName]

\* the removeDevice transform: the device leaves the member's list, whatever is
\* left in it; its id is appended to removedDevices; the lockboxes the filter
\* matches are dropped
RemoveDeviceTransform(st, userName, deviceName) ==
  [st EXCEPT !.devices = @ \ {<<userName, deviceName>>},
             !.removedDevices = Append(@, DeviceId(userName, deviceName)),
             !.lockboxes = {lockbox \in @ : ~(/\ lockbox.recipient.type = "DEVICE"
                                               /\ lockbox.recipient.name = userName
                                               /\ lockbox.contents.name = deviceName)}]

\* an ADMIT that is applied whether or not the invitation was used before
InvitationUsableAgain(st, id) == id \in st.invitations /\ id \notin st.revoked

\* ADMIT: the invitation exists, is not revoked and is not used up
InvitationUsable(st, id) == id \in st.invitations /\ id \notin st.revoked /\ id \notin st.used

\* reducer(state, link): a link whose author lacks the right to post it is skipped.
\* Any member may admit an invitee, and may add a device or change keys of his own
\* (Team.join posts both as the newly admitted member); the rest takes an admin.
\* The lockboxes a link carries are added to the state before its effect is applied.
Reducer(st, l) ==
  LET ownScope == /\ l.type \in {"ADMIT", "ADD_DEVICE", "CHANGE_MEMBER_KEYS"}
                  /\ (l.type # "ADMIT" => l.name = l.author)
      authorized == /\ l.author \in st.members
                    /\ (l.author \in st.admins \/ ownScope)
      collected == [st EXCEPT !.lockboxes = @ \cup l.lockboxes]
      isFor(b, userName) == b.recipient.type = "MEMBER" /\ b.recipient.name = userName
  IN  IF l.type = "ROOT"
        THEN [st EXCEPT !.members = {l.author}, !.admins = {l.author},
                        !.devices = {<<l.author, "laptop">>},
                        !.keys = {<<l.author, l.arg>>},
                        !.lockboxes = l.lockboxes]
      ELSE IF ~authorized THEN st
      ELSE CASE l.type = "ADD_MEMBER" ->
                  [collected EXCEPT !.members = @ \cup {l.name},
                                    !.devices = @ \cup {<<l.name, "laptop">>},
                                    !.keys = {k \in @ : k[1] # l.name} \cup {<<l.name, l.arg>>}]
             [] l.type = "REMOVE_MEMBER" ->
                  IF st.admins \ {l.name} = {} THEN st
                  ELSE [collected EXCEPT !.members = @ \ {l.name}, !.admins = @ \ {l.name},
                                         !.memberRoles = {r \in @ : r[1] # l.name},
                                         !.devices = {d \in @ : d[1] # l.name},
                                         !.keys = {k \in @ : k[1] # l.name},
                                         !.lockboxes = {b \in @ : ~isFor(b, l.name)}]
             [] l.type = "ADD_ROLE" -> [collected EXCEPT !.roles = @ \cup {l.name}]
             [] l.type = "ADD_MEMBER_ROLE" ->
                  IF l.arg = "admin" THEN [collected EXCEPT !.admins = @ \cup {l.name}]
                  ELSE [collected EXCEPT !.memberRoles = @ \cup {<<l.name, l.arg>>}]
             [] l.type = "REMOVE_MEMBER_ROLE" ->
                  IF l.arg = "admin" /\ st.admins \ {l.name} = {} THEN st
                  ELSE [collected EXCEPT
                          !.admins = IF l.arg = "admin" THEN @ \ {l.name} ELSE @,
                          !.memberRoles = @ \ {<<l.name, l.arg>>},
                          !.lockboxes = {b \in @ : ~(/\ isFor(b, l.name)
                                                      /\ b.contents.type = "ROLE"
                                                      /\ b.contents.name = l.arg)}]
             [] l.type = "ADD_DEVICE" ->
                  [collected EXCEPT !.devices = @ \cup {<<l.name, l.arg>>}]
             [] l.type = "REMOVE_DEVICE" -> RemoveDeviceTransform(collected, l.name, l.arg)
             [] l.type = "CHANGE_MEMBER_KEYS" ->
                  [collected EXCEPT
                     !.keys = {k \in @ : k[1] # l.name} \cup {<<l.name, l.arg>>}]
             [] l.type = "INVITE" -> [collected EXCEPT !.invitations = @ \cup {l.arg}]
             [] l.type = "REVOKE_INVITATION" -> [collected EXCEPT !.revoked = @ \cup {l.arg}]
             [] l.type = "ADMIT" ->
                  IF InvitationUsable(st, l.arg)
                    THEN [collected EXCEPT !.used = @ \cup {l.arg},
                                           !.admissions = Append(@, l.arg)]
                    ELSE st
             [] OTHER -> st

\* Team.updateState: the chain's sequence, run through the reducer
UpdateState(chain) ==
  LET sequence == GetSequence(chain.root, chain.head)
      RECURSIVE reduce(_)
      reduce(k) == IF k = 0 THEN InitialState ELSE Reducer(reduce(k - 1), sequence[k])
  IN  reduce(Len(sequence))

\* ------------------------------------------------------------------------
\* The Team facade: keysets, lockboxes and the operations that change the team
\* ------------------------------------------------------------------------

\* a keyset, named by its scope and generation (its key material is what
\* keysets.create drew for that scope and generation)
Keyset(type, name, generation) == [type |-> type, name |-> name, generation |-> generation]

\* what a lookup gives when there is no such keyset
NoKeyset == Keyset("NONE", "", 0)

\* lockbox.create(contents, recipientKeys)
CreateLockbox(contents, recipient) == [recipient |-> recipient, contents |-> contents]

\* a rotation that does not advance the generation
RotateInPlace(oldLockbox) == oldLockbox

\* lockbox.rotate: same recipient, the new keyset is the next generation of the old
Rotate(oldLockbox) == [oldLockbox EXCEPT !.contents.generation = @ + 1]

\* myKeys: every keyset the user can reach from his own keys through lockboxes
MyKeys(st, userName) ==
  LET RECURSIVE getDerivedKeys(_, _)
      getDerivedKeys(keysets, k) ==
        IF k = 0 THEN keysets
        ELSE getDerivedKeys(
               keysets \cup {b.contents : b \in {x \in st.lockboxes : x.recipient \in keysets}},
               k - 1)
      own == {Keyset("MEMBER", userName, 0)}
  IN  getDerivedKeys(own, Cardinality(st.lockboxes)) \ own

\* select.keys(state, user, scope): generation -1 stands for a scope given without
\* a generation; NoKeyset when the lookup throws or finds nothing at that index
KeysFor(st, userName, type, name, generationOrUndefined) ==
  LET keysetHistory == {k \in MyKeys(st, userName) : k.type = type /\ k.name = name}
      latest == CHOOSE g \in {k.generation : k \in keysetHistory} :
                  \A k \in keysetHistory : k.generation <= g
      \* generationOrUndefined || keys.length - 1
      generation == IF generationOrUndefined = -1 \/ generationOrUndefined = 0
                      THEN latest ELSE generationOrUndefined
  IN  IF keysetHistory = {} THEN NoKeyset
      ELSE IF Keyset(type, name, generation) \in keysetHistory
        THEN Keyset(type, name, generation)
      ELSE NoKeyset

\* what a call gives whose recursion never comes back: the engine ends it with
\* RangeError (maximum call stack size exceeded)
StackOverflow == {<<"RangeError", "Maximum call stack size exceeded">>}

\* the scopes that can be reached from the given scope through one or more
\* lockboxes, from recipient to contents
ReachableScopes(st, type, name) ==
  LET RECURSIVE visible(_, _)
      visible(scopes, k) ==
        IF k = 0 THEN scopes
        ELSE visible(scopes \cup {<<b.contents.type, b.contents.name>> :
                                   b \in {x \in st.lockboxes :
                                            /\ <<x.recipient.type, x.recipient.name>> \in scopes
                                                  \cup {<<type, name>>}}},
                     k - 1)
  IN  visible({}, Cardinality(st.lockboxes))

\* visibleScopes: the scopes of the lockboxes the given scope is the recipient of,
\* then the same for each of those, with nothing to remember what was visited.
\* A call nested deeper than there are scopes has some scope twice on its path,
\* and goes on calling itself for that scope.
VisibleScopes(st, type, name) ==
  LET allScopes == {<<b.recipient.type, b.recipient.name>> : b \in st.lockboxes}
                     \cup {<<b.contents.type, b.contents.name>> : b \in st.lockboxes}
      RECURSIVE visibleScopes(_, _)
      visibleScopes(scope, depth) ==
        LET scopes == {<<b.contents.type, b.contents.name>> :
                         b \in {x \in st.lockboxes :
                                  <<x.recipient.type, x.recipient.name>> = scope}}
            derivedScopes == {visibleScopes(derived, depth + 1) : derived \in scopes}
        IN  IF depth > Cardinality(allScopes) THEN StackOverflow
            ELSE IF StackOverflow \in derivedScopes THEN StackOverflow
            ELSE scopes \cup UNION derivedScopes
  IN  visibleScopes(<<type, name>>, 0)

\* Team.generateNewLockboxes: for the compromised scope and every scope visible
\* from it, the latest lockboxes holding that scope's keys, each rotated
GenerateNewLockboxes(st, type, name) ==
  LET scopes == {<<type, name>>} \cup VisibleScopes(st, type, name)
      inScope(scope) == {b \in st.lockboxes : <<b.contents.type, b.contents.name>> = scope}
      lockboxesInScope(scope) ==
        {b \in inScope(scope) : \A c \in inScope(scope) :
                                   c.contents.generation <= b.contents.generation}
  IN  {Rotate(b) : b \in UNION {lockboxesInScope(scope) : scope \in scopes}}

\* the user whose Team object this is (context.user)
LocalUser == "alice"

Users == {"alice", "bob", "charlie"}

\* new Team({teamName, context}): the root link carries the team and admin
\* lockboxes for the founder
NewTeam ==
  LET root == [Link("ROOT", LocalUser, LocalUser, "real", {}) EXCEPT
                 !.lockboxes = {CreateLockbox(Keyset("TEAM", "TEAM", 0),
                                              Keyset("MEMBER", LocalUser, 0)),
                                CreateLockbox(Keyset("ROLE", "admin", 0),
                                              Keyset("MEMBER", LocalUser, 0))}]
  IN  [chain |-> Chain(root), state |-> Reducer(InitialState, root), threw |-> ""]

\* a dispatch that appends the link and leaves the state as it was
DispatchWithoutReducing(t, type, name, arg, lockboxes) ==
  LET head == [Link(type, LocalUser, name, arg, {t.chain.head}) EXCEPT
                 !.lockboxes = lockboxes]
  IN  [chain |-> [root |-> t.chain.root, head |-> head, links |-> t.chain.links \cup {head}],
       state |-> t.state,
       threw |-> ""]

\* Team.dispatch: append the link to the chain, then run the reducer on the new head
TeamDispatch(t, type, name, arg, lockboxes) ==
  LET head == [Link(type, LocalUser, name, arg, {t.chain.head}) EXCEPT
                 !.lockboxes = lockboxes]
  IN  [chain |-> [root |-> t.chain.root, head |-> head, links |-> t.chain.links \cup {head}],
       state |-> Reducer(t.state, head),
       threw |-> ""]

\* a call that throws before it dispatches anything
Throw(t, call) == [t EXCEPT !.threw = call]

\* the operations below leave everything but the Team object alone
TeamOnly == UNCHANGED <<protoVars, incoming, deliveryVars, graphVars, envelope, storage, provider>>

\* there is room in the chain for k more links
Room(k) == Cardinality(team.chain.links) + k <= MaxLinks + 1

\* Team.add(user)
Add(userName) ==
  /\ Room(1) /\ userName \notin team.state.members
  /\ LET teamKeys == KeysFor(team.state, LocalUser, "TEAM", "TEAM", -1)
     IN  team' = IF teamKeys = NoKeyset THEN Throw(team, "add")
                 ELSE TeamDispatch(team, "ADD_MEMBER", userName, "real",
                        {CreateLockbox(teamKeys, Keyset("MEMBER", userName, 0))})
  /\ TeamOnly

\* Team.remove(userName)
Remove(userName) ==
  /\ Room(1) /\ userName \in team.state.members
  /\ team' = TeamDispatch(team, "REMOVE_MEMBER", userName, "",
                          GenerateNewLockboxes(team.state, "MEMBER", userName))
  /\ TeamOnly

\* Team.addMemberRole(userName, roleName)
AddMemberRole(userName, roleName) ==
  /\ Room(1) /\ userName \in team.state.members
  /\ LET roleKeys == KeysFor(team.state, LocalUser, "ROLE", roleName, -1)
     IN  team' = IF roleKeys = NoKeyset THEN Throw(team, "addMemberRole")
                 ELSE TeamDispatch(team, "ADD_MEMBER_ROLE", userName, roleName,
                        {CreateLockbox(roleKeys, Keyset("MEMBER", userName, 0))})
  /\ TeamOnly

\* Team.removeMemberRole(userName, roleName)
RemoveMemberRole(userName, roleName) ==
  /\ Room(1) /\ userName \in team.state.members
  /\ team' = TeamDispatch(team, "REMOVE_MEMBER_ROLE", userName, roleName,
                          GenerateNewLockboxes(team.state, "ROLE", roleName))
  /\ TeamOnly

\* Team.removeDevice({userName, deviceName})
RemoveDevice(userName, deviceName) ==
  /\ Room(1) /\ <<userName, deviceName>> \in team.state.devices
  /\ team' = TeamDispatch(team, "REMOVE_DEVICE", userName, deviceName,
                          GenerateNewLockboxes(team.state, "DEVICE",
                                               DeviceId(userName, deviceName)))
  /\ TeamOnly

\* Team.invite(userName, {seed}): a user who is not a member is added first
Invite(userName, seed) ==
  /\ Room(2) /\ IdOf(seed) \notin team.state.invitations
  /\ LET teamKeys == KeysFor(team.state, LocalUser, "TEAM", "TEAM", -1)
         added == IF userName \in team.state.members THEN team
                  ELSE TeamDispatch(team, "ADD_MEMBER", userName, "starter",
                         {CreateLockbox(teamKeys, Keyset("MEMBER", userName, 0))})
     IN  team' = IF teamKeys = NoKeyset THEN Throw(team, "invite")
                 ELSE TeamDispatch(added, "INVITE", userName, IdOf(seed), {})
  /\ TeamOnly

\* Team.revokeInvitation(id)
RevokeInvitation(id) ==
  /\ id \in team.state.invitations => Room(1)
  /\ team' = IF id \notin team.state.invitations THEN Throw(team, "revokeInvitation")
             ELSE TeamDispatch(team, "REVOKE_INVITATION", "", id, {})
  /\ TeamOnly

\* the proofs of invitation presented to the team: the invitee's, one for an
\* invitation the team never made, and one made without the invitation's seed
Proofs == {GenerateProof("s1", "charlie"), GenerateProof("s2", "charlie"),
           [GenerateProof("s2", "charlie") EXCEPT !.id = "id1"]}

\* Team.admit(proof)
TeamAdmit(proof) ==
  LET throws == \/ KeysFor(team.state, LocalUser, "TEAM", "TEAM", -1) = NoKeyset
                \/ proof.id \notin team.state.invitations
                \/ proof.id \in team.state.revoked
                \/ proof.id \in team.state.used
                \/ ~ValidateProof(proof, team.chain)
  IN  /\ ~throws => Room(1)
      /\ team' = IF throws THEN Throw(team, "admit")
                 ELSE TeamDispatch(team, "ADMIT", "", proof.id, {})
      /\ TeamOnly

\* Team.join(proof): the Team's user adds the device the Team runs on, then
\* posts the member keys
TeamJoin ==
  /\ Room(2)
  /\ team' = TeamDispatch(TeamDispatch(team, "ADD_DEVICE", LocalUser, "laptop", {}),
                          "CHANGE_MEMBER_KEYS", LocalUser, "real", {})
  /\ TeamOnly

NoEnvelope == [recipient |-> NoKeyset]

\* nothing has been decrypted yet
NotOpened == [message |-> NoEnvelope, keys |-> NoKeyset, held |-> FALSE]

\* Team.encrypt(payload, roleName): the key is the latest one of the scope, and the
\* envelope's recipient names the scope and that key's generation
TeamEncrypt(type, name) ==
  LET keys == KeysFor(team.state, LocalUser, type, name, -1)
  IN  /\ team' = IF keys = NoKeyset THEN Throw(team, "encrypt") ELSE [team EXCEPT !.threw = ""]
      /\ envelope' = IF keys = NoKeyset THEN envelope
                      ELSE [envelope EXCEPT !.message = [recipient |-> keys]]
      /\ UNCHANGED <<protoVars, incoming, deliveryVars, graphVars, storage, provider>>

\* Team.decrypt(message): the key is looked up with the envelope's recipient; what
\* is recorded is the envelope, the key the lookup gave, and whether the user held
\* the recipient's keyset at that moment
TeamDecrypt(message) ==
  LET keys == KeysFor(team.state, LocalUser, message.recipient.type,
                      message.recipient.name, message.recipient.generation)
  IN  /\ message = envelope.message /\ message # NoEnvelope
      /\ team' = [team EXCEPT !.threw = IF keys # message.recipient THEN "decrypt" ELSE ""]
      /\ envelope' = [envelope EXCEPT
                        !.opened = [message |-> message, keys |-> keys,
                                    held |-> message.recipient \in MyKeys(team.state, LocalUser)]]
      /\ UNCHANGED <<protoVars, incoming, deliveryVars, graphVars, storage, provider>>

\* the connection machines, the delivery queue and the replicas are not part of
\* the facade and coordinator specifications
MachinesUnused ==
  /\ config = <<>> /\ state = <<>> /\ context = <<>> /\ net = <<>> /\ outIndex = <<>>
  /\ incoming = <<>> /\ trace = <<>> /\ emitted = <<>> /\ stopped = <<>> /\ scriptPos = 0
  /\ arrivals = {} /\ calls = <<>> /\ machineLog = <<>>
  /\ origin = <<>> /\ replica = <<>>

TeamInit ==
  /\ MachinesUnused
  /\ team = NewTeam
  /\ envelope = [message |-> NoEnvelope, opened |-> NotOpened]
  /\ storage = <<>>
  /\ provider = <<>>

TeamNext ==
  \/ \E userName \in Users : Add(userName)
  \/ \E userName \in Users : Remove(userName)
  \/ \E userName \in Users : AddMemberRole(userName, "admin")
  \/ \E userName \in Users : RemoveMemberRole(userName, "admin")
  \/ \E userName \in Users : RemoveDevice(userName, "laptop")
  \/ Invite("charlie", "s1")
  \/ \E id \in {"id1", "id2"} : RevokeInvitation(id)
  \/ \E proof \in Proofs : TeamAdmit(proof)
  \/ TeamJoin
  \/ TeamEncrypt("ROLE", "admin")
  \/ TeamEncrypt("TEAM", "TEAM")
  \/ TeamDecrypt(envelope.message)

TeamSpec == TeamInit /\ [][TeamNext]_vars

\* ------------------------------------------------------------------------
\* Saving, tampering and loading: the chain in storage
\* ------------------------------------------------------------------------

\* a link as it is stored: its body, the hash it is filed under (the body it was
\* computed from) and the signature (the body that was signed, and with whose key)
Stored(l) == [hash |-> l, body |-> l, signed |-> [body |-> l, key |-> l.author]]

NothingSaved == [root |-> NoLink, head |-> NoLink, links |-> {}, tampered |-> "", loaded |-> ""]

\* a validation that checks the signatures and nothing else
ValidateSignaturesOnly(saved) ==
  \A s \in saved.links : s.signed.body = s.body /\ s.signed.key = s.body.author

\* chains.validate: every link's hash is the hash of its body, its signature is
\* the author's signature of its body, the links it names as prev exist, and
\* there is exactly one root link, the one the chain names
Validate(saved) ==
  /\ \A s \in saved.links :
        /\ s.hash = s.body
        /\ s.signed.body = s.body /\ s.signed.key = s.body.author
        /\ \A p \in s.body.prev : \E t \in saved.links : t.hash = p
  /\ {s.hash : s \in {t \in saved.links : t.body.type = "ROOT"}} = {saved.root}
  /\ \E s \in saved.links : s.hash = saved.head

StorageOnly == UNCHANGED <<protoVars, incoming, deliveryVars, graphVars, team, envelope, provider>>

\* Team.save / storage.save(team)
Save ==
  /\ storage' = [root |-> team.chain.root, head |-> team.chain.head,
                 links |-> {Stored(l) : l \in team.chain.links},
                 tampered |-> "", loaded |-> ""]
  /\ StorageOnly

\* someone changes the payload of a stored link
TamperPayload(s) ==
  /\ s \in storage.links /\ storage.tampered = ""
  /\ storage' = [storage EXCEPT
                   !.links = (@ \ {s}) \cup {[s EXCEPT !.body.arg = "tampered"]},
                   !.tampered = "payload", !.loaded = ""]
  /\ StorageOnly

\* the author changes the type of a stored link and signs the changed body again;
\* the link stays filed where it was
MungeTypeAndResign(s) ==
  /\ s \in storage.links /\ storage.tampered = ""
  /\ LET body == [s.body EXCEPT !.type = "MUNGED"]
     IN  storage' = [storage EXCEPT
                       !.links = (@ \ {s}) \cup
                                   {[s EXCEPT !.body = body,
                                              !.signed = [body |-> body, key |-> body.author]]},
                       !.tampered = "type", !.loaded = ""]
  /\ StorageOnly

\* a second ROOT link is appended, hashed and signed as append does
AppendSecondRoot ==
  /\ storage.links # {} /\ storage.tampered = ""
  /\ LET l == Link("ROOT", LocalUser, "", "pizza", {storage.head})
     IN  storage' = [storage EXCEPT !.links = @ \cup {Stored(l)}, !.head = l,
                                    !.tampered = "root", !.loaded = ""]
  /\ StorageOnly

\* new Team({source, context}): the chain is taken from storage and updateState
\* validates it, throwing if it is not valid, before it derives the team state
Load ==
  /\ storage.links # {}
  /\ LET chain == [root |-> storage.root, head |-> storage.head,
                   links |-> {st.body : st \in storage.links}]
     IN  IF Validate(storage)
           THEN /\ team' = [chain |-> chain, state |-> UpdateState(chain), threw |-> ""]
                /\ storage' = [storage EXCEPT !.loaded = "loaded"]
           ELSE /\ team' = team
                /\ storage' = [storage EXCEPT !.loaded = "threw"]
  /\ UNCHANGED <<protoVars, incoming, deliveryVars, graphVars, envelope, provider>>

StorageInit ==
  /\ MachinesUnused
  /\ team = NewTeam
  /\ envelope = <<>>
  /\ storage = NothingSaved
  /\ provider = <<>>

StorageNext ==
  \/ \E userName \in Users : Add(userName)
  \/ \E userName \in Users : AddMemberRole(userName, "admin")
  \/ Save
  \/ \E s \in storage.links : TamperPayload(s)
  \/ \E s \in storage.links : MungeTypeAndResign(s)
  \/ AppendSecondRoot
  \/ Load

StorageSpec == StorageInit /\ [][StorageNext]_vars

\* ------------------------------------------------------------------------
\* The AuthProvider: one connection per share and peer, over one wrapped adapter
\* ------------------------------------------------------------------------

ShareIds == {1, 2}
PeerIds == {"bob"}

\* the shares each peer is a member of: a connection on any other share never
\* gets through the protocol
SharesOf(peerId) == IF peerId = "bob" THEN {1, 2} ELSE {}

\* the elements of a set of share ids, lowest first
RECURSIVE Sorted(_)
Sorted(ids) ==
  IF ids = {} THEN <<>>
  ELSE LET lowest == CHOOSE x \in ids : \A y \in ids : x <= y
       IN  <<lowest>> \o Sorted(ids \ {lowest})

\* #createConnection after its await: the connection is made, put in the map
\* (over whatever was there), started, and given the messages stored for its pair
CreateConnection(pr, shareId, peerId) ==
  LET connection == [shareId |-> shareId, peerId |-> peerId, state |-> "connecting",
                     delivered |-> pr.storedMessages[<<shareId, peerId>>]]
  IN  [pr EXCEPT !.conns = Append(@, connection),
                 !.connections[<<shareId, peerId>>] = Len(pr.conns) + 1]

\* the calls of #createConnection run in the order they were made: at once when
\* the adapter is ready, otherwise when it becomes ready
RECURSIVE CreateConnections(_, _)
CreateConnections(pr, pairs) ==
  IF pairs = <<>> THEN pr
  ELSE IF ~pr.ready THEN [pr EXCEPT !.pending = @ \o pairs]
  ELSE CreateConnections(CreateConnection(pr, Head(pairs)[1], Head(pairs)[2]), Tail(pairs))

\* #removeConnection: a connection that is in the map and not yet disconnected is
\* stopped and taken out of the map
RemoveConnection(pr, shareId, peerId) ==
  LET id == pr.connections[<<shareId, peerId>>]
  IN  IF id # 0 /\ pr.conns[id].state # "disconnected"
        THEN [pr EXCEPT !.conns[id].state = "disconnected",
                        !.connections[<<shareId, peerId>>] = 0]
        ELSE pr

ProviderOnly == UNCHANGED <<protoVars, incoming, deliveryVars, graphVars, team, envelope, storage>>

\* there is room for k more connections
RoomForConnections(k) == Len(provider.conns) + Len(provider.pending) + k <= MaxConnections

\* the base adapter becomes ready
AdapterReady ==
  /\ ~provider.ready
  /\ provider' = CreateConnections([provider EXCEPT !.ready = TRUE, !.pending = <<>>],
                                   provider.pending)
  /\ ProviderOnly

\* 'peer-candidate': the peer is recorded and a connection is made for every share
PeerCandidate(peerId) ==
  /\ RoomForConnections(Cardinality(provider.shares))
  /\ LET shareIds == Sorted(provider.shares)
         added == [provider EXCEPT
                     !.peers = IF \E i \in 1..Len(@) : @[i] = peerId THEN @
                               ELSE Append(@, peerId)]
     IN  provider' = CreateConnections(added,
                       [i \in 1..Len(shareIds) |-> <<shareIds[i], peerId>>])
  /\ ProviderOnly

\* addTeam: the share is recorded and a connection is made with every known peer
\* that has none on this share
AddTeam(shareId) ==
  /\ shareId \notin provider.shares
  /\ RoomForConnections(Len(provider.peers))
  /\ LET isNew(peerId) == provider.connections[<<shareId, peerId>>] = 0
         peerIds == SelectSeq(provider.peers, isNew)
     IN  provider' = CreateConnections([provider EXCEPT !.shares = @ \cup {shareId}],
                       [i \in 1..Len(peerIds) |-> <<shareId, peerIds[i]>>])
  /\ ProviderOnly

\* 'message': given to the connection of its share and sender, or stored if the
\* map has none
ProviderMessage(shareId, senderId) ==
  /\ provider.arrived < MaxMessages
  /\ LET n == provider.arrived + 1
         id == provider.connections[<<shareId, senderId>>]
     IN  provider' = IF id = 0
                       THEN [provider EXCEPT !.arrived = n,
                               !.storedMessages[<<shareId, senderId>>] = Append(@, n)]
                       ELSE [provider EXCEPT !.arrived = n,
                               !.conns[id].delivered = Append(@, n)]
  /\ ProviderOnly

\* a connection gets through the protocol and emits 'connected': it is the one
\* the peer's messages are given to, on a share the peer is a member of
ConnectionConnected(id) ==
  /\ id \in 1..Len(provider.conns)
  /\ provider.conns[id].state = "connecting"
  /\ provider.connections[<<provider.conns[id].shareId, provider.conns[id].peerId>>] = id
  /\ provider.conns[id].shareId \in SharesOf(provider.conns[id].peerId)
  /\ provider' = [provider EXCEPT !.conns[id].state = "connected"]
  /\ ProviderOnly

\* a connection disconnects by itself and emits 'disconnected': #disconnect
ConnectionDisconnected(id) ==
  /\ id \in 1..Len(provider.conns)
  /\ provider.conns[id].state # "disconnected"
  /\ provider' = RemoveConnection([provider EXCEPT !.conns[id].state = "disconnected"],
                                  provider.conns[id].shareId, provider.conns[id].peerId)
  /\ ProviderOnly

\* 'peer-disconnected': #disconnect for every share that has a connection with the peer
PeerDisconnected(peerId) ==
  /\ \E shareId \in provider.shares : provider.connections[<<shareId, peerId>>] # 0
  /\ LET RECURSIVE disconnect(_, _)
         disconnect(pr, shareIds) ==
           IF shareIds = <<>> THEN pr
           ELSE disconnect(RemoveConnection(pr, Head(shareIds), peerId), Tail(shareIds))
     IN  provider' = disconnect(provider, Sorted(provider.shares))
  /\ ProviderOnly

\* #getShareIdForMessage: the shares whose connection with the target is connected
ShareIdsForPeer(pr, targetId) ==
  {shareId \in pr.shares :
     /\ pr.connections[<<shareId, targetId>>] # 0
     /\ pr.conns[pr.connections[<<shareId, targetId>>]].state = "connected"}

\* send(message): the share to send over is the lowest of them; 0 when there is
\* none and the call throws
ProviderSend(targetId) ==
  /\ provider' = [provider EXCEPT
                    !.sentOver = IF ShareIdsForPeer(provider, targetId) = {} THEN 0
                                 ELSE Sorted(ShareIdsForPeer(provider, targetId))[1]]
  /\ ProviderOnly

ProviderInit ==
  /\ MachinesUnused
  /\ team = <<>> /\ envelope = <<>> /\ storage = <<>>
  /\ provider = [ready |-> FALSE, shares |-> {1}, peers |-> <<>>, pending |-> <<>>,
                 connections |-> [pair \in ShareIds \X PeerIds |-> 0],
                 conns |-> <<>>,
                 storedMessages |-> [pair \in ShareIds \X PeerIds |-> <<>>],
                 arrived |-> 0, sentOver |-> 0]

ProviderNext ==
  \/ AdapterReady
  \/ \E peerId \in PeerIds : PeerCandidate(peerId)
  \/ AddTeam(2)
  \/ \E shareId \in ShareIds, senderId \in PeerIds : ProviderMessage(shareId, senderId)
  \/ \E id \in 1..MaxConnections : ConnectionConnected(id)
  \/ \E id \in 1..MaxConnections : ConnectionDisconnected(id)
  \/ \E peerId \in PeerIds : PeerDisconnected(peerId)
  \/ \E targetId \in PeerIds : ProviderSend(targetId)

ProviderSpec == ProviderInit /\ [][ProviderNext]_vars

\* ------------------------------------------------------------------------
\* Transforms and selectors applied to a team state
\* ------------------------------------------------------------------------

\* the lockboxes a team state may hold: a device's lockbox for its user's keys,
\* a member's lockboxes for the team and admin keys, the admin role's lockbox
\* for the team keys, and the lockbox Team.addRole makes when the role is
\* called admin (new keys of that name, for the admin keys)
LockboxesOfATeam ==
  {CreateLockbox(Keyset("MEMBER", "alice", 0), Keyset("DEVICE", DeviceId("alice", "laptop"), 0)),
   CreateLockbox(Keyset("MEMBER", "bob", 0), Keyset("DEVICE", DeviceId("bob", "laptop"), 0)),
   CreateLockbox(Keyset("TEAM", "TEAM", 0), Keyset("MEMBER", "alice", 0)),
   CreateLockbox(Keyset("ROLE", "admin", 0), Keyset("MEMBER", "alice", 0)),
   CreateLockbox(Keyset("TEAM", "TEAM", 0), Keyset("ROLE", "admin", 0)),
   CreateLockbox(Keyset("ROLE", "admin", 0), Keyset("ROLE", "admin", 0))}

\* the team states the functions are applied to: alice and bob are members,
\* with some of their devices and some of the lockboxes
TeamStates ==
  {[InitialState EXCEPT !.members = {"alice", "bob"}, !.admins = {"alice"},
                        !.devices = devices, !.lockboxes = lockboxes] :
     devices \in SUBSET {<<"alice", "laptop">>, <<"alice", "phone">>, <<"bob", "laptop">>},
     lockboxes \in SUBSET LockboxesOfATeam}

NoCall == <<"", "", "">>

TransformOnly == UNCHANGED <<protoVars, incoming, deliveryVars, graphVars, envelope, storage, provider>>

\* removeDevice(userName, deviceName)(state)
ApplyRemoveDevice(userName, deviceName) ==
  /\ Len(team.state.removedDevices) < MaxRemoved
  /\ team' = [team EXCEPT !.before = team.state,
                          !.state = RemoveDeviceTransform(team.state, userName, deviceName),
                          !.call = <<"removeDevice", userName, deviceName>>]
  /\ TransformOnly

\* visibleScopes(state, {type, name})
ApplyVisibleScopes(type, name) ==
  /\ team' = [team EXCEPT !.before = team.state,
                          !.call = <<"visibleScopes", type, name>>,
                          !.scopes = VisibleScopes(team.state, type, name)]
  /\ TransformOnly

TransformInit ==
  /\ MachinesUnused
  /\ envelope = <<>> /\ storage = <<>> /\ provider = <<>>
  /\ \E st \in TeamStates : team = [state |-> st, before |-> st, call |-> NoCall, scopes |-> {}]

TransformNext ==
  \/ \E userName \in {"alice", "bob"}, deviceName \in {"laptop", "phone"} :
       ApplyRemoveDevice(userName, deviceName)
  \/ \E scope \in {<<"DEVICE", DeviceId("alice", "laptop")>>, <<"MEMBER", "alice">>,
                    <<"ROLE", "admin">>, <<"TEAM", "TEAM">>} :
       ApplyVisibleScopes(scope[1], scope[2])

TransformSpec == TransformInit /\ [][TransformNext]_vars

\* ------------------------------------------------------------------------
\* Properties
\* ------------------------------------------------------------------------

BothConnected == \A p \in Peers : state[p].name = "connected"
NothingInFlight == \A p \in Peers : net[p] = <<>>
SameHead == context["a"].team.head = context["b"].team.head

\* two members of the same team, each present in the other's team state at the start
EachKnowsTheOther ==
  /\ \A p \in Peers : config[p].kind = "member"
  /\ Chain(config["a"].head).root = Chain(config["b"].head).root
  /\ \A p \in Peers : Has(Chain(config[p].head), config[Other(p)].user)

\* both are still members once the two initial graphs are merged
BothStayMembers ==
  \A p \in Peers :
    Has(MergeChains(Chain(config["a"].head), Chain(config["b"].head)), config[p].user)

C2_SameSessionKey ==
  /\ BothConnected =>
       /\ context["a"].sessionKey = context["b"].sessionKey
       /\ context["a"].sessionKey = DeriveSharedKey(context["a"].seed, context["b"].seed)
       /\ context["a"].sessionKey # NoSessionKey
  /\ \A x, y \in 1..MaxSeed : DeriveSharedKey(x, y) = DeriveSharedKey(y, x)

\* C2 witness: both are connected, and the side that sorts first drew the larger seed
C2_Witness ==
  /\ BothConnected
  /\ context["a"].seed > context["b"].seed
  /\ context["b"].sessionKey = DeriveSharedKey(context["b"].seed, context["a"].seed)

\* p's team holds the link of its own local mutation
HasMutated(p) ==
  \E l \in context[p].team.links : l.type = "ADD_ROLE" /\ l.name = LocalRole(p)

\* the places in a connection's history where `what` happened
Positions(t, what) == {i \in 1..Len(t) : t[i] = what}

\* the last time before k that the connection became connected (0 if it never had)
PreviousConnected(t, k) ==
  LET earlier == {c \in Positions(t, "CONNECTED") : c < k}
  IN  IF earlier = {} THEN 0 ELSE CHOOSE c \in earlier : \A d \in earlier : d <= c

\* C3: a connection is connected only after, in this order, it processed the peer's
\* HELLO, both identity substates completed, a synchronization round ended with equal
\* heads (since it last was connected), and it then sent its own SEED and received
\* the peer's SEED; a connected connection's head, as long as its team has not been
\* changed locally since, is the head it recorded for the peer.
C3_ConnectedOnlyAfterEveryStep ==
  \A p \in Peers :
    /\ state[p].name = "connected" =>
         /\ trace[p] # <<>>
         /\ trace[p][Len(trace[p])] = "CONNECTED"
         /\ ~HasMutated(p) => context[p].team.head = context[p].theirHead
    /\ \A k \in Positions(trace[p], "CONNECTED") :
         \E l \in Positions(trace[p], "SYNC_DONE") :
           /\ PreviousConnected(trace[p], k) < l
           /\ l < k
           /\ \E m \in Positions(trace[p], "SEED_SENT") : l < m /\ m < k
           /\ \E n \in Positions(trace[p], "SEED_RECEIVED") : l < n /\ n < k
           /\ \E j \in Positions(trace[p], "AUTH_DONE") :
                /\ j < l
                /\ \E i \in Positions(trace[p], "HELLO_RECEIVED") : i < j

\* C3 witness: an invitee's connection, which went through every step, is connected
C3_Witness ==
  \E p \in Peers :
    /\ config[p].kind = "invitee"
    /\ state[p].name = "connected"
    /\ Positions(trace[p], "JOINED") # {}
    /\ Positions(trace[p], "SEED_RECEIVED") # {}

\* C4: whatever the arrival order and however the deliver() calls interleave, the
\* machine is sent the peer's messages in strictly increasing index order without
\* gaps: the k-th message it is sent is the one with index k - 1.
C4_MachineSeesIndexOrder ==
  \A k \in 1..Len(machineLog) : machineLog[k] = k - 1

\* p has a team, and its peer presents no invitation and claims a name that is not
\* a member in p's team state
PeerIsUnknown(p) ==
  /\ config[p].kind = "member"
  /\ config[Other(p)].kind \in {"member", "stranger"}
  /\ ~Has(Chain(config[p].head), config[Other(p)].user)

\* C5: a connection is never connected with a peer that presents no invitation and
\* whose claimed user is not a member in the local team state when its HELLO is
\* processed: processing the HELLO records the error and sends ERROR at once, the
\* connection is disconnected from then on, and once the peer has received everything
\* sent to it the peer is disconnected too.
C5_UnknownPeerIsRejected ==
  \A p \in Peers :
    PeerIsUnknown(p) =>
      /\ state[p].name # "connected"
      /\ Positions(trace[p], "CONNECTED") = {}
      /\ \A i \in Positions(trace[p], "HELLO_RECEIVED") :
           /\ i < Len(trace[p])
           /\ trace[p][i + 1] = "ERROR"
           /\ state[p].name = "disconnected"
           /\ context[p].error # ""
           /\ Positions(trace[p], "ERROR_RECEIVED") = {} => context[p].error = REJECT_IDENTITY
           /\ (state[Other(p)].name # "unstarted" /\ net[Other(p)] = <<>>) =>
                state[Other(p)].name = "disconnected"

\* C5 witness: alice, whose team state no longer lists bob, has processed bob's HELLO;
\* both are disconnected and bob holds the error alice sent
C5_Witness ==
  /\ PeerIsUnknown("a")
  /\ ~PeerIsUnknown("b")
  /\ Positions(trace["a"], "HELLO_RECEIVED") # {}
  /\ state["a"].name = "disconnected"
  /\ state["b"].name = "disconnected"
  /\ context["a"].error = REJECT_IDENTITY
  /\ context["b"].error = REJECT_IDENTITY
  /\ NothingInFlight

\* p had the peer as a member when the connection was made, and after merging links
\* received from the peer its team state no longer lists the peer
PeerWasRemovedByMerge(p) ==
  /\ config[p].kind = "member"
  /\ context[p].theirIdentityClaim # ""
  /\ Has(Chain(config[p].head), context[p].theirIdentityClaim)
  /\ context[p].team # Chain(config[p].head)
  /\ ~Has(context[p].team, context[p].theirIdentityClaim)

\* C6: if, after links received from the peer are merged, the peer is no longer a
\* member, the connection is not connected with that peer and reaches disconnected
\* with the peer-removed error.
C6_RemovedPeerIsDisconnected ==
  \A p \in Peers :
    [](PeerWasRemovedByMerge(p) =>
         /\ state[p].name # "connected"
         /\ <>(state[p].name = "disconnected" /\ context[p].error = PEER_WAS_REMOVED))

BothAreInvitees == \A p \in Peers : config[p].kind = "invitee"

\* the message p sent last
LastSent(p) == net[Other(p)][Len(net[Other(p)])]

\* C7: when both peers present an invitation, neither goes on to authentication:
\* processing the peer's HELLO records 'neither one of us is a member' and sends
\* ERROR at once, the connection is disconnected from then on, and neither side ever
\* has a team or appends a link.
C7_TwoInviteesGiveUp ==
  BothAreInvitees =>
    \A p \in Peers :
      /\ context[p].team = NoTeam
      /\ state[p].name \in {"unstarted", "idle", "disconnected"}
      /\ Positions(trace[p], "AUTH_DONE") = {}
      /\ Positions(trace[p], "CHALLENGE_IDENTITY") = {}
      /\ \A i \in Positions(trace[p], "HELLO_RECEIVED") :
           /\ i < Len(trace[p])
           /\ trace[p][i + 1] = "ERROR"
           /\ state[p].name = "disconnected"
           /\ context[p].error = NEITHER_IS_MEMBER

\* C7 witness: two invitees have each processed the other's HELLO and are disconnected
C7_Witness ==
  /\ BothAreInvitees
  /\ \A p \in Peers :
       /\ Positions(trace[p], "HELLO_RECEIVED") # {}
       /\ state[p].name = "disconnected"
       /\ context[p].error = NEITHER_IS_MEMBER
       /\ context[p].team = NoTeam

\* p is an invitee about to process an ACCEPT_INVITATION whose graph does not hold
\* the id of p's invitation
WrongTeamOffered(p) ==
  /\ config[p].kind = "invitee"
  /\ Delivers(p, "ACCEPT_INVITATION")
  /\ Handles(state[p], context[p], Head(net[p]))
  /\ IdOf(config[p].seed) \notin InvitationIds(Head(net[p]).chain)

\* C8: an invitee that processes an ACCEPT_INVITATION whose graph does not contain
\* its own invitation id does not adopt the graph: the step leaves it disconnected
\* with the error 'not the team I was invited to' and without a team, and sends ERROR;
\* and a connection holding that error is disconnected, has no team and never joined.
C8_WrongTeamIsRejected ==
  /\ [][\A p \in Peers :
          (WrongTeamOffered(p) /\ net'[p] = Tail(net[p])) =>
            /\ state'[p].name = "disconnected"
            /\ context'[p].error = REJECT_TEAM
            /\ context'[p].team = NoTeam
            /\ Len(net'[Other(p)]) = Len(net[Other(p)]) + 1
            /\ net'[Other(p)][Len(net'[Other(p)])].type = "ERROR"
            /\ net'[Other(p)][Len(net'[Other(p)])].message = REJECT_TEAM]_vars
  /\ [](\A p \in Peers :
          context[p].error = REJECT_TEAM =>
            /\ state[p].name = "disconnected"
            /\ context[p].team = NoTeam
            /\ Positions(trace[p], "JOINED") = {})

\* C8 witness: charlie, invited with one seed, was sent the graph of a team that
\* holds another invitation; he is disconnected with the error and has no team
C8_Witness ==
  /\ config["a"].kind = "invitee"
  /\ config["b"].kind = "scripted"
  /\ config["b"].head = EveInvite
  /\ scriptPos = 2
  /\ net["a"] = <<>>
  /\ state["a"].name = "disconnected"
  /\ context["a"].error = REJECT_TEAM
  /\ context["a"].team = NoTeam
  /\ LastSent("a") = [ErrorMessage(REJECT_TEAM) EXCEPT !.index = 1]

\* p is a member about to process a HELLO that carries a proof of invitation
HelloWithProof(p) ==
  /\ config[p].kind = "member"
  /\ Delivers(p, "HELLO")
  /\ Handles(state[p], context[p], Head(net[p]))
  /\ Head(net[p]).proofOfInvitation # NoProof

\* C9: when a member processes a HELLO that carries a proof of invitation: if the
\* proof validates against an existing, unrevoked, unused invitation, the step appends
\* exactly one link, an ADMIT of that invitation, and sends one message,
\* ACCEPT_INVITATION, whose graph is the member's graph with the admission in it;
\* otherwise the step appends nothing, sends ERROR and leaves the member disconnected.
C9_InvitationIsAdmittedOrRejected ==
  [][\A p \in Peers :
       (HelloWithProof(p) /\ net'[p] = Tail(net[p])) =>
         LET proof == Head(net[p]).proofOfInvitation
             before == context[p].team
             after == context'[p].team
             sent == net'[Other(p)][Len(net'[Other(p)])]
         IN  /\ Len(net'[Other(p)]) = Len(net[Other(p)]) + 1
             /\ IF CanAdmit(before, proof)
                  THEN /\ after.links \ before.links = {after.head}
                       /\ after.head.type = "ADMIT"
                       /\ after.head.arg = proof.id
                       /\ after.head.prev = {before.head}
                       /\ sent.type = "ACCEPT_INVITATION"
                       /\ sent.chain = after
                       /\ state'[p].name = "authenticating"
                  ELSE /\ after = before
                       /\ sent.type = "ERROR"
                       /\ sent.message = REJECT_INVITATION
                       /\ context'[p].error = REJECT_INVITATION
                       /\ state'[p].name = "disconnected"]_vars

\* C9 witness: alice has admitted charlie and sent him the graph with the admission
C9_Witness ==
  /\ config["a"].head = InviteCharlie
  /\ config["b"] = InviteeSetup("charlie", "s1")
  /\ state["a"].name = "authenticating"
  /\ context["a"].team.head = Link("ADMIT", "alice", "", "id1", {InviteCharlie})
  /\ net["b"] # <<>>
  /\ LastSent("a").type = "ACCEPT_INVITATION"
  /\ LastSent("a").chain = context["a"].team

\* p is an invitee and its peer is not
InviteeOfPeer(p) == config[p].kind = "invitee" /\ config[Other(p)].kind # "invitee"

\* C10: a peer that presented an invitation is never sent CHALLENGE_IDENTITY and
\* never has to prove its identity: whenever it is authenticating its proving substate
\* is done.  On joining it challenges the other side at once, and neither side gets
\* past connecting before the other side has sent its proof of identity.
C10_InviteeIsNotChallenged ==
  \A p \in Peers :
    InviteeOfPeer(p) =>
      /\ Positions(trace[Other(p)], "CHALLENGE_IDENTITY") = {}
      /\ \A i \in 1..Len(net[p]) : net[p][i].type # "CHALLENGE_IDENTITY"
      /\ Positions(trace[p], "PROVE_IDENTITY") = {}
      /\ state[p].name = "authenticating" => state[p].proving = "done"
      /\ \A i \in Positions(trace[p], "JOINED") :
           i < Len(trace[p]) /\ trace[p][i + 1] = "CHALLENGE_IDENTITY"
      /\ \A q \in Peers :
           (\/ state[q].name \in {"synchronizing", "negotiating", "connected"}
            \/ Positions(trace[q], "AUTH_DONE") # {}) =>
             /\ Positions(trace[Other(p)], "PROVE_IDENTITY") # {}
             /\ Positions(trace[p], "ACCEPT_IDENTITY") # {}

\* C10 witness: an invitee and the member who admitted it are both connected; the
\* member proved its identity and never challenged the invitee
C10_Witness ==
  /\ InviteeOfPeer("b")
  /\ BothConnected
  /\ Positions(trace["a"], "PROVE_IDENTITY") # {}
  /\ Positions(trace["a"], "CHALLENGE_IDENTITY") = {}
  /\ Positions(trace["b"], "CHALLENGE_IDENTITY") # {}

\* ------------------------------------------------------------------------
\* The protocol with timers that do fire: whenever a connection stays in a state
\* that carries the `after` transition, the transition is eventually taken.
\* Nothing is assumed about the peer or the channel: messages may stay
\* undelivered forever.
\* ------------------------------------------------------------------------

TimerSpec == Init /\ [][Next]_vars /\ \A p \in Peers : WF_vars(Timeout(p))

\* p is waiting for one expected message from the peer: the awaiting* substates of
\* connecting, synchronizing.waiting, negotiating's receivingSeed.waiting
WaitingForPeer(p) ==
  \/ state[p].name = "awaitingInvitationAcceptance"
  \/ state[p].proving \in {"awaitingIdentityChallenge", "awaitingIdentityAcceptance"}
  \/ state[p].verifying = "awaitingIdentityProof"
  \/ state[p].name \in {"synchronizing", "negotiating"}

\* p's timer fired: the machine went through failure to disconnected with the timeout error
TimedOut(p) ==
  /\ state[p].name = "disconnected"
  /\ context[p].error = TIMED_OUT
  /\ \E k \in 1..Len(trace[p]) : trace[p][k] = "TIMEOUT"

\* C11: whenever a started connection is waiting for one expected message from the
\* peer and nothing more ever arrives from the peer, the connection eventually is
\* disconnected with the timeout error.
C11_WaitingEndsInTimeout ==
  \A p \in Peers :
    []((WaitingForPeer(p) /\ [](net[p] = <<>>)) => <>TimedOut(p))

\* stop() is called on p in this step
StopCalled(p) == ~stopped[p] /\ stopped'[p]

\* p's machine processes a DISCONNECT message from the peer in this step
ProcessesDisconnect(p) ==
  /\ Delivers(p, "DISCONNECT")
  /\ net'[p] = Tail(net[p])

\* C12: stop() on a started connection, in whatever state, leaves the local machine
\* in disconnected and sends DISCONNECT to the peer; and a machine that processes
\* the peer's DISCONNECT is in disconnected afterwards, whatever state it was in.
C12_StopDisconnectsBothEnds ==
  [][\A p \in Peers :
       /\ StopCalled(p) =>
            /\ state'[p].name = "disconnected"
            /\ net'[Other(p)] # <<>>
            /\ net'[Other(p)][Len(net'[Other(p)])].type = "DISCONNECT"
       /\ ProcessesDisconnect(p) => state'[p].name = "disconnected"]_vars

\* p's team gets a new head by a local mutation in this step
MutatesLocally(p) ==
  /\ state[p].name = "connected"
  /\ context'[p].team.head # context[p].team.head
  /\ state'[p] = state[p]

\* the last message sent to p
LastTo(p) == net[p][Len(net[p])]

\* C13: while two connections are connected, a local mutation of one side's team
\* sends the peer an UPDATE with the new head; and after such a mutation both
\* connections eventually are connected (again) with equal heads.
C13_LocalMutationIsPropagated ==
  /\ [][\A p \in Peers :
          (BothConnected /\ MutatesLocally(p)) =>
             /\ net'[Other(p)] # <<>>
             /\ LastTo(Other(p))'.type = "UPDATE"
             /\ LastTo(Other(p))'.head = context'[p].team.head]_vars
  /\ \A p \in Peers :
       [](HasMutated(p) => <>(BothConnected /\ SameHead /\ HasMutated(Other(p)) ))

\* C14: a connection that has not completed a negotiation yet has no session key,
\* and a connection that has reached disconnected has none any more.
C14_SessionKeyOnlyWhileConnected ==
  \A p \in Peers :
    /\ Positions(trace[p], "CONNECTED") = {} => context[p].sessionKey = NoSessionKey
    /\ state[p].name = "disconnected" => context[p].sessionKey = NoSessionKey

\* u's graph holds every link of v's graph
Contains(u, v) == replica[v].links \subseteq replica[u].links

Sequence(u) == GetSequence(replica[u].root, replica[u].head)

\* u and v have merged each other's graphs
MergedBothWays(u, v) ==
  /\ u # v
  /\ replica[u].links = replica[v].links
  /\ replica[u].head.type = "MERGE"

\* C16: once two replicas have merged each other's graphs, their graphs
\* linearize (under the membership resolver) to the same sequence of links,
\* and the reducer gives both the same team state
C16_SequenceIsTheSameOnBothSides ==
  \A u, v \in Replicas :
    MergedBothWays(u, v) =>
      /\ ~Throws(Sequence(u))
      /\ Sequence(u) = Sequence(v)
      /\ UpdateState(replica[u]) = UpdateState(replica[v])

\* the team state a replica derives from its graph
TeamState(u) == UpdateState(replica[u])

\* u's graph holds everything alice, bob and charlie did while apart
HasAllBranches(u) == \A v \in Replicas : origin[v].head \in replica[u].links

\* C17: when alice (the founder) and bob concurrently remove each other, or
\* concurrently demote each other from admin, then on every replica that has
\* merged both branches bob's action is dropped and alice's survives: alice is
\* still a member and an admin, bob is not (not a member after a removal, not an
\* admin after a demotion), and the role alice added meanwhile exists
C17_SeniorWinsMutualRemoval ==
  \A u \in Replicas :
    /\ (origin = Scenario("mutual removals") /\ HasAllBranches(u)) =>
         /\ ~Throws(Sequence(u))
         /\ \A i \in 1..Len(Sequence(u)) :
              Sequence(u)[i].type = "REMOVE_MEMBER" => Sequence(u)[i].author = "alice"
         /\ "alice" \in TeamState(u).members /\ "alice" \in TeamState(u).admins
         /\ "bob" \notin TeamState(u).members
         /\ "managers" \in TeamState(u).roles
    /\ (origin = Scenario("mutual demotions") /\ HasAllBranches(u)) =>
         /\ ~Throws(Sequence(u))
         /\ \A i \in 1..Len(Sequence(u)) :
              Sequence(u)[i].type = "REMOVE_MEMBER_ROLE" => Sequence(u)[i].author = "alice"
         /\ "alice" \in TeamState(u).admins
         /\ "bob" \in TeamState(u).members /\ "bob" \notin TeamState(u).admins
         /\ "managers" \in TeamState(u).roles

\* alice and bob have removed each other and then merged each other's graphs:
\* on bob's own replica bob is out, alice is in, and alice's role exists
C17_Witness ==
  /\ origin = Scenario("mutual removals")
  /\ HasAllBranches("alice") /\ HasAllBranches("bob")
  /\ replica["bob"].head.type = "MERGE"
  /\ "bob" \notin TeamState("bob").members
  /\ "alice" \in TeamState("bob").members
  /\ "managers" \in TeamState("bob").roles

\* C18: when alice demotes bob while bob, apart from her, adds a role, adds
\* and invites dwight and admits him, then on every replica that has merged both
\* branches none of the links bob authored meanwhile is in the sequence, the
\* invitation and the admission that used it included, and none of their
\* effects is in the team state
C18_ActionsOfDemotedMemberAreDropped ==
  \A u \in Replicas :
    (origin = Scenario("demoted makes changes") /\ HasAllBranches(u)) =>
      /\ ~Throws(Sequence(u))
      /\ \A i \in 1..Len(Sequence(u)) :
           /\ Sequence(u)[i] \in origin["bob"].links \ origin["alice"].links
                => Sequence(u)[i].author # "bob"
           /\ Sequence(u)[i].type \notin {"INVITE", "ADMIT"}
      /\ \E i \in 1..Len(Sequence(u)) : Sequence(u)[i] = origin["alice"].head
      /\ "bob" \in TeamState(u).members /\ "bob" \notin TeamState(u).admins
      /\ "finance" \notin TeamState(u).roles
      /\ "dwight" \notin TeamState(u).members
      /\ TeamState(u).invitations = {} /\ TeamState(u).used = {}

\* bob, whose own graph had the role, the new member and the used invitation,
\* has merged alice's demotion of him and has lost all three; so has alice
C18_Witness ==
  /\ origin = Scenario("demoted makes changes")
  /\ "finance" \in UpdateState(origin["bob"]).roles
  /\ "dwight" \in UpdateState(origin["bob"]).members
  /\ "id1" \in UpdateState(origin["bob"]).used
  /\ HasAllBranches("alice") /\ HasAllBranches("bob")
  /\ replica["bob"].head.type = "MERGE"
  /\ "dwight" \notin TeamState("bob").members
  /\ TeamState("bob").used = {}

KeyGeneration(st, userName, type, name) == KeysFor(st, userName, type, name, -1).generation

\* C21: when an admin removes member M and another admin is left, M is no longer
\* a member and, for every member that remains, the generation of the team
\* keyset that member can open is exactly one more than it was
C21_RemoveRotatesTeamKeys ==
  [][\A M \in Users :
       (/\ Remove(M)
        /\ LocalUser \in team.state.admins
        /\ team.state.admins \ {M} # {}) =>
         /\ M \notin team'.state.members
         /\ team'.state.members = team.state.members \ {M}
         /\ \A u \in team'.state.members :
              KeyGeneration(team'.state, u, "TEAM", "TEAM")
                = KeyGeneration(team.state, u, "TEAM", "TEAM") + 1]_vars

\* alice has just removed bob; charlie and alice remain and both open the team
\* keyset of generation 1
C21_Witness ==
  /\ team.chain.head.type = "REMOVE_MEMBER" /\ team.chain.head.name = "bob"
  /\ team.state.members = {"alice", "charlie"}
  /\ KeyGeneration(team.state, "alice", "TEAM", "TEAM") = 1
  /\ KeyGeneration(team.state, "charlie", "TEAM", "TEAM") = 1
  /\ MyKeys(team.state, "bob") = {}

\* C22: when an admin takes the admin role from member M and another admin is
\* left, the generation of the admin keyset every remaining admin can open is
\* exactly one more than it was, the generation of the team keyset every member
\* can open is what it was, and M can open no admin keyset
C22_DemotionRotatesAdminKeys ==
  [][\A M \in Users :
       (/\ RemoveMemberRole(M, "admin")
        /\ LocalUser \in team.state.admins
        /\ M \in team.state.admins
        /\ team.state.admins \ {M} # {}) =>
         /\ team'.state.admins = team.state.admins \ {M}
         /\ \A u \in team'.state.admins :
              KeyGeneration(team'.state, u, "ROLE", "admin")
                = KeyGeneration(team.state, u, "ROLE", "admin") + 1
         /\ \A u \in team'.state.members :
              KeyGeneration(team'.state, u, "TEAM", "TEAM")
                = KeyGeneration(team.state, u, "TEAM", "TEAM")
         /\ \A k \in MyKeys(team'.state, M) : ~(k.type = "ROLE" /\ k.name = "admin")]_vars

\* alice has just taken the admin role from bob: bob is still a member, alice
\* opens the admin keyset of generation 1, bob opens none, and the team keyset
\* is still of generation 0
C22_Witness ==
  /\ team.chain.head.type = "REMOVE_MEMBER_ROLE" /\ team.chain.head.name = "bob"
  /\ team.chain.head.arg = "admin"
  /\ "bob" \in team.state.members /\ team.state.admins = {"alice"}
  /\ KeyGeneration(team.state, "alice", "ROLE", "admin") = 1
  /\ KeysFor(team.state, "bob", "ROLE", "admin", -1) = NoKeyset
  /\ KeyGeneration(team.state, "bob", "TEAM", "TEAM") = 0

\* C23: whenever alice decrypts an envelope whose recipient names a keyset she
\* holds, of any generation, generation 0 included, the key used is the keyset
\* of the scope and generation the envelope's recipient names
C23_DecryptUsesTheGenerationOfTheEnvelope ==
  (envelope.opened # NotOpened /\ envelope.opened.held) =>
    envelope.opened.keys = envelope.opened.message.recipient

\* C24: the team always has an admin, and a remove or a removeMemberRole of the
\* admin role that would leave the team without one is refused: it changes
\* neither the graph nor the team state
C24_RemovalOfTheLastAdminIsRefused ==
  [][/\ team'.state.admins # {}
     /\ \A M \in Users :
          (/\ Remove(M) \/ RemoveMemberRole(M, "admin")
           /\ team.state.admins \ {M} = {}) =>
            /\ team'.chain = team.chain
            /\ team'.state = team.state]_vars

\* C25: whatever devices have been added and removed, every member of the team
\* has at least one device
C25_EveryMemberHasADevice ==
  \A u \in team.state.members : \E d \in team.state.devices : d[1] = u

\* C27: admit(proof) throws and leaves the graph and the team state as they were
\* when the invitation's id is unknown, the invitation is revoked or already
\* used, or the proof is not the one made for the invitee with the invitation's
\* seed; otherwise (alice holding the team keys) exactly one ADMIT link is
\* appended on the old head, and the invitation is then used, so that the same
\* proof is refused from then on
C27_AdmitThrowsOrAppendsOneLink ==
  [][\A proof \in Proofs :
       TeamAdmit(proof) =>
         LET id == proof.id
             refused == \/ id \notin team.state.invitations
                        \/ id \in team.state.revoked
                        \/ id \in team.state.used
                        \/ proof # GenerateProof(proof.seed, InvitationUser(team.chain, id))
         IN  /\ refused =>
                  /\ team'.threw = "admit"
                  /\ team'.chain = team.chain /\ team'.state = team.state
             /\ (~refused /\ KeysFor(team.state, LocalUser, "TEAM", "TEAM", -1) # NoKeyset) =>
                  /\ team'.threw = ""
                  /\ team'.chain.links \ team.chain.links = {team'.chain.head}
                  /\ team'.chain.head.type = "ADMIT" /\ team'.chain.head.arg = id
                  /\ team'.chain.head.prev = {team.chain.head}
                  /\ id \in team'.state.used]_vars

\* alice has admitted charlie with his proof, and a second admit has thrown: the
\* head is still the one ADMIT link of the graph
C27_Witness ==
  /\ team.threw = "admit"
  /\ team.chain.head.type = "ADMIT" /\ team.chain.head.arg = "id1"
  /\ Cardinality({l \in team.chain.links : l.type = "ADMIT"}) = 1
  /\ "id1" \in team.state.used

C28_TamperedChainIsNotValid ==
  storage.tampered # "" =>
    /\ ~Validate(storage)
    /\ storage.loaded # "loaded"

\* a link of a saved chain of three links had its type changed and was signed
\* again, so that its signature verifies, and loading the chain threw
C28_Witness ==
  /\ storage.tampered = "type" /\ storage.loaded = "threw"
  /\ Cardinality(storage.links) = 3
  /\ ValidateSignaturesOnly(storage)
  /\ \E s \in storage.links : s.body.type = "MUNGED" /\ s.hash.type = "ADD_MEMBER"

\* the connections the AuthProvider has made so far
Connections == 1..Len(provider.conns)

\* message n was given to connection id
Delivered(id, n) ==
  \E i \in 1..Len(provider.conns[id].delivered) : provider.conns[id].delivered[i] = n

\* C29: a message that was stored for a share and peer because no connection
\* existed is given to connections of that share and peer only, to at most one
\* of them and once; the connection the map holds for the pair has been given
\* all the stored messages first and in the order they arrived; and every
\* connection is given its messages in the order they arrived
C29_StoredMessagesAreDeliveredOnce ==
  /\ \A pair \in ShareIds \X PeerIds :
       LET stored == provider.storedMessages[pair]
           id == provider.connections[pair]
       IN  /\ \A i \in 1..Len(stored) :
                /\ Cardinality({c \in Connections : Delivered(c, stored[i])}) <= 1
                /\ \A c \in Connections :
                     Delivered(c, stored[i]) =>
                       /\ <<provider.conns[c].shareId, provider.conns[c].peerId>> = pair
                       /\ Cardinality({k \in 1..Len(provider.conns[c].delivered) :
                                         provider.conns[c].delivered[k] = stored[i]}) = 1
           /\ id # 0 =>
                /\ Len(stored) <= Len(provider.conns[id].delivered)
                /\ SubSeq(provider.conns[id].delivered, 1, Len(stored)) = stored
  /\ \A c \in Connections :
       \A i, j \in 1..Len(provider.conns[c].delivered) :
         i < j => provider.conns[c].delivered[i] < provider.conns[c].delivered[j]

\* C30: of the connections the AuthProvider has made with one peer, at most one
\* is connected
C30_AtMostOneConnectedPerPeer ==
  \A peerId \in PeerIds :
    Cardinality({c \in Connections : /\ provider.conns[c].peerId = peerId
                                     /\ provider.conns[c].state = "connected"}) <= 1

C38_DisconnectedConnectionLeavesTheMap ==
  \A id \in Connections :
    provider.conns[id].state = "disconnected" =>
      provider.connections[<<provider.conns[id].shareId, provider.conns[id].peerId>>] # id

\* C40: removeDevice(userName, deviceName) takes exactly that device off that
\* member's list, appends the device's id to removedDevices, removes every
\* lockbox whose recipient is the removed device and no other lockbox, and
\* leaves the rest of the state as it was.
C40_RemoveDeviceRemovesTheDevicesLockboxes ==
  team.call[1] = "removeDevice" =>
    LET userName == team.call[2]
        deviceName == team.call[3]
        ofTheDevice(lockbox) == /\ lockbox.recipient.type = "DEVICE"
                                /\ lockbox.recipient.name = DeviceId(userName, deviceName)
    IN  team.state = [team.before EXCEPT
                        !.devices = @ \ {<<userName, deviceName>>},
                        !.removedDevices = Append(@, DeviceId(userName, deviceName)),
                        !.lockboxes = {lockbox \in @ : ~ofTheDevice(lockbox)}]

\* C33: visibleScopes(state, scope) returns, for every set of lockboxes, exactly
\* the scopes that can be reached from the scope through one or more lockboxes.
C33_VisibleScopesIsTheReachableSet ==
  team.call[1] = "visibleScopes" =>
    /\ team.scopes # StackOverflow
    /\ team.scopes = ReachableScopes(team.before, team.call[2], team.call[3])

\* the two branches getSequence hands to the reconciler at a merge link
BranchesAt(m) ==
  LET ancestor == GetCommonAncestor(m.parents[1], m.parents[2])
  IN  <<Tail(GetSequenceByDefault(ancestor, m.parents[1])),
        Tail(GetSequenceByDefault(ancestor, m.parents[2]))>>

\* C32: getSequence is a function of the graph's content only. Two replicas that
\* hold the same links and the same head get the same sequence, and at every
\* merge link the default reconciler puts the two branches in an order that
\* depends on their content and not on which was given first.
C32_SequenceDependsOnContentOnly ==
  /\ \A u, v \in Replicas :
       (replica[u].links = replica[v].links /\ replica[u].head = replica[v].head) =>
         GetSequenceByDefault(replica[u].root, replica[u].head)
           = GetSequenceByDefault(replica[v].root, replica[v].head)
  /\ \A u \in Replicas : \A m \in {l \in replica[u].links : l.type = "MERGE"} :
       ~Throws(BranchesAt(m)[1] \o BranchesAt(m)[2]) =>
         DefaultReconciler(BranchesAt(m)[1], BranchesAt(m)[2])
           = DefaultReconciler(BranchesAt(m)[2], BranchesAt(m)[1])

\* C39: for every valid graph, nested and criss-cross merges included,
\* getSequence with the default reconciler returns a sequence that starts with
\* the root, ends with the head, holds every link of the graph exactly once and
\* holds each link after all its parents.
C39_SequenceIsATopologicalOrder ==
  \A u \in Replicas :
    LET sequence == GetSequenceByDefault(replica[u].root, replica[u].head)
        at(l) == CHOOSE i \in 1..Len(sequence) : sequence[i] = l
    IN  /\ ~Throws(sequence)
        /\ sequence[1] = replica[u].root
        /\ sequence[Len(sequence)] = replica[u].head
        /\ {sequence[i] : i \in 1..Len(sequence)} = replica[u].links
        /\ Len(sequence) = Cardinality(replica[u].links)
        /\ \A l \in replica[u].links : \A p \in l.prev : at(p) < at(l)

\* C34: a connection that fails emits 'disconnected' exactly once, whether it
\* detected the failure itself (fail, then the transition to failure) or was
\* told of it by the peer's ERROR; and once it is in disconnected its machine
\* never again enters another state.
C34_DisconnectedIsEmittedOnce ==
  /\ [](\A p \in Peers :
          /\ emitted[p].disconnected <= 1
          /\ (state[p].name = "disconnected" => emitted[p].disconnected = 1))
  /\ [][\A p \in Peers :
          state[p].name = "disconnected" => state'[p].name = "disconnected"]_vars

\* both ends are connections of the program (a member, an invitee or somebody
\* on no team), not a peer driven by hand
BothCorrect == \A p \in Peers : config[p].kind # "scripted"

\* C35: for every interleaving of two correct peers, a SEED that a connection
\* takes from its queue finds the machine in negotiating, waiting for it: the
\* SEED of the peer that finished synchronizing first is never dropped by a
\* machine that is still synchronizing or is connected.
C35_SeedFindsTheMachineNegotiating ==
  [][\A p \in Peers :
       (BothCorrect /\ Delivers(p, "SEED") /\ net'[p] = Tail(net[p])) =>
         state[p].name = "negotiating"]_vars

\* alice was behind bob and brought up to date by his MISSING_LINKS: her SEED was
\* sent while bob was still synchronizing; both processed the other's SEED
C35_Witness ==
  /\ config["a"].head = BaseHead /\ config["b"].head = BobRole
  /\ \A p \in Peers : /\ config[p].kind = "member"
                      /\ state[p].name = "connected"
                      /\ \E i \in 1..Len(trace[p]) : trace[p][i] = "SEED_RECEIVED"

\* the graph records that the device was removed from the team
DeviceWasRemoved(chain, userName, deviceName) ==
  \E l \in Reduced(chain) : l.type = "REMOVE_DEVICE" /\ l.name = userName /\ l.arg = deviceName

\* p's connection was started from the context of a device that the team of
\* p's peer knows to be removed
FromRemovedDevice(p) ==
  /\ \A q \in Peers : config[q].kind = "member"
  /\ DeviceWasRemoved(Chain(config[Other(p)].head), config[p].user, config[p].device)

\* C31: a connection started from the context of a removed device, with a peer
\* whose team state includes the removal, never reaches connected, and both ends
\* reach disconnected.
C31_RemovedDeviceDoesNotConnect ==
  \A p \in Peers :
    FromRemovedDevice(p) =>
      /\ [](\A q \in Peers : state[q].name # "connected")
      /\ <>(\A q \in Peers : state[q].name = "disconnected")

\* the PROVE_IDENTITY that p's machine is about to process in this step
ProofArrives(p) ==
  /\ Delivers(p, "PROVE_IDENTITY")
  /\ Handles(state[p], context[p], Head(net[p]))
  /\ net'[p] = Tail(net[p])

\* C36: a PROVE_IDENTITY is accepted only if it carries the challenge this
\* connection issued; a proof that is valid for another challenge is rejected,
\* and the connection fails with the identity-rejected error.
C36_ProofOfAnotherChallengeIsRejected ==
  [][\A p \in Peers :
       ProofArrives(p) =>
         LET event == Head(net[p])
             accepted == /\ state'[p].name # "disconnected"
                         /\ \E i \in 1..Len(net'[Other(p)]) :
                              /\ i > Len(net[Other(p)])
                              /\ net'[Other(p)][i].type = "ACCEPT_IDENTITY"
             rejected == /\ state'[p].name = "disconnected"
                         /\ context'[p].error = REJECT_IDENTITY
         IN  /\ accepted \/ rejected
             /\ accepted => event.challenge = context[p].challenge
             /\ event.challenge # context[p].challenge => rejected]_vars

\* alice challenged the peer that claims to be bob, was given bob's valid proof
\* of an earlier challenge, and has failed with the identity-rejected error
C36_Witness ==
  /\ config \in ReplayConfigs
  /\ scriptPos = 2
  /\ context["a"].challenge = IdentityChallenge("bob", "a")
  /\ IdentityVerify(RecordedChallenge, Script(config["b"])[2].proof,
                    Member(context["a"].team, "bob").keys)
  /\ state["a"].name = "disconnected"
  /\ context["a"].error = REJECT_IDENTITY

====
